---------------------------- MODULE Spec2Model ----------------------------
(***************************************************************************)
(* Model of the two cache generators of the repository:                    *)
(*   src/.kilocode/cache/cache_generator.py      (CacheGenerator, "sql")   *)
(*   src/.kilocode/cache/api_cache_generator.py  (ApiCacheGenerator,"api") *)
(*                                                                         *)
(* A text file is a sequence of lines.  A line is a record                 *)
(*     [ind |-> number of leading spaces, toks |-> sequence of tokens]     *)
(* and stands for the string made of ind spaces followed by the tokens     *)
(* joined by single spaces.  A file name is the sequence of its            *)
(* dot-separated components: <<"query", "sql", "go">> is query.sql.go.     *)
(* The regular expressions of the source are modelled by operators over    *)
(* the tokens of a line.                                                   *)
(***************************************************************************)
EXTENDS Integers, Sequences, FiniteSets, TLC

-----------------------------------------------------------------------------
(* Bounds of the model *)

\* number of generator processes started in one behaviour
MaxRuns == 2
\* number of changes made to the source files in one behaviour
MaxEdits == 2
\* number of lines of the part of an input document that is enumerated
MaxLines == 3

-----------------------------------------------------------------------------
(* Generic helpers *)

Min(a, b) == IF a < b THEN a ELSE b
Max(a, b) == IF a > b THEN a ELSE b

\* Python None where the value is a string (a name, or no match of a pattern)
None == "None"

\* An optional value (an index that may be None, a file that may not exist):
\* the empty sequence, or a sequence holding the value
Nothing == << >>
Some(x) == << x >>
IsSome(o) == Len(o) > 0
The(o) == o[1]

\* A file of the cache directory that was opened with mode "w" and whose
\* json.dump did not complete (the writer was killed in between): the file
\* exists and holds no JSON document, json.load of it raises JSONDecodeError
Truncated == << "w", "" >>
\* the file exists and holds the JSON document of a completed dump
IsJson(f) == Len(f) = 1

L(i, t) == [ind |-> i, toks |-> t]

\* line.strip() is non-empty
NonBlank(line) == Len(line.toks) > 0

\* An insertion-ordered Python dict: a sequence of [k, v] records with distinct k
DictKeys(d) == {d[i].k : i \in 1..Len(d)}
DictHas(d, key) == \E i \in 1..Len(d) : d[i].k = key
DictGet(d, key) == d[CHOOSE i \in 1..Len(d) : d[i].k = key].v
\* d[key] = val : an existing key keeps its position, a new key is appended
DictSet(d, key, val) ==
    IF DictHas(d, key)
    THEN [i \in 1..Len(d) |-> IF d[i].k = key THEN [k |-> key, v |-> val] ELSE d[i]]
    ELSE Append(d, [k |-> key, v |-> val])

\* hashes.get(key) of a dict modelled as a function
Lookup(h, key) == IF key \in DOMAIN h THEN h[key] ELSE None
\* hashes[key] = val
Store(h, key, val) == [x \in (DOMAIN h) \cup {key} |-> IF x = key THEN val ELSE h[x]]

EmptyDict == << >>
EmptyMap == [x \in {} |-> None]

RECURSIVE FlattenToks(_)
\* the tokens of a text, line after line (line breaks are whitespace for \s+)
FlattenToks(lines) ==
    IF lines = << >> THEN << >>
    ELSE lines[1].toks \o FlattenToks(Tail(lines))

\* all orders in which the elements of a finite set can be listed
Permutations1(S) ==
    {p \in [1..Cardinality(S) -> S] : \A i, j \in 1..Cardinality(S) : i # j => p[i] # p[j]}

-----------------------------------------------------------------------------
(* Characters of tokens: str.upper(), str.lower(), \w+, substring tests *)

\* str.lower() over the vocabulary of the model
Lower(t) ==
    CASE t = "CREATE" -> "create"
      [] t = "TABLE" -> "table"
      [] t = "TYPE" -> "type"
      [] t = "FUNCTION" -> "function"
      [] t = "SELECT" -> "select"
      [] t = "FROM" -> "from"
      [] t = "JOIN" -> "join"
      [] t = "WHERE" -> "where"
      [] t = "INTO" -> "into"
      [] t = "UPDATE" -> "update"
      [] t = "INSERT" -> "insert"
      [] t = "DELETE" -> "delete"
      [] t = "SET" -> "set"
      [] t = "GetOrder" -> "getorder"
      [] t = "ListUsers" -> "listusers"
      [] t = "Order" -> "order"
      [] t = "User" -> "user"
      [] t = "Item" -> "item"
      [] t = "Ping" -> "ping"
      [] t = "Foo" -> "foo"
      [] t = "Bar" -> "bar"
      [] t = "ID" -> "id"
      [] t = "MaxItems" -> "maxitems"
      [] t = "Reader" -> "reader"
      [] t = "A" -> "a"
      [] t = "AS" -> "as"
      [] t = "GetUser" -> "getuser"
      [] t = "ListTasks" -> "listtasks"
      [] t = "ListTasksParams" -> "listtasksparams"
      [] t = "Task" -> "task"
      [] t = "'NEW'" -> "'new'"
      [] OTHER -> t

\* str.upper() over the vocabulary of the model
Upper(t) ==
    CASE t \in {"select", "SELECT"} -> "SELECT"
      [] t \in {"from", "FROM"} -> "FROM"
      [] t \in {"join", "JOIN"} -> "JOIN"
      [] t \in {"where", "WHERE"} -> "WHERE"
      [] t \in {"into", "INTO"} -> "INTO"
      [] t \in {"update", "UPDATE"} -> "UPDATE"
      [] t \in {"insert", "INSERT"} -> "INSERT"
      [] t \in {"delete", "DELETE"} -> "DELETE"
      [] t \in {"set", "SET"} -> "SET"
      [] t = "orders" -> "ORDERS"
      [] t = "users" -> "USERS"
      [] t = "status" -> "STATUS"
      [] t = "items" -> "ITEMS"
      [] t = "total" -> "TOTAL"
      [] t = "name" -> "NAME"
      [] t = "GetOrder" -> "GETORDER"
      [] t = "ListUsers" -> "LISTUSERS"
      [] t = "Ping" -> "PING"
      [] t = "Foo" -> "FOO"
      [] t = "GetUser" -> "GETUSER"
      [] t = "ListTasks" -> "LISTTASKS"
      [] t = "ListTasksParams" -> "LISTTASKSPARAMS"
      [] t = "MaxItems" -> "MAXITEMS"
      [] t = "Order" -> "ORDER"
      [] t = "Reader" -> "READER"
      [] t = "Task" -> "TASK"
      [] t = "User" -> "USER"
      [] t = "Item" -> "ITEM"
      [] t = "Bar" -> "BAR"
      [] t = "const" -> "CONST"
      [] t = "create" -> "CREATE"
      [] t = "exists" -> "EXISTS"
      [] t = "func" -> "FUNC"
      [] t = "generated" -> "GENERATED"
      [] t = "id" -> "ID"
      [] t = "if" -> "IF"
      [] t = "int" -> "INT"
      [] t = "interface" -> "INTERFACE"
      [] t = "not" -> "NOT"
      [] t = "object" -> "OBJECT"
      [] t = "struct" -> "STRUCT"
      [] t = "table" -> "TABLE"
      [] t = "text" -> "TEXT"
      [] t = "type" -> "TYPE"
      [] t = "function" -> "FUNCTION"
      [] t = "as" -> "AS"
      [] t = "a" -> "A"
      [] OTHER -> t

\* the longest prefix of the token matching \w+ ("" when the token does not
\* start with a word character)
WordPrefix(t) ==
    CASE t \in {"(", ")", ");", ";", "*", "=", "--", ":one", ":many", "{", "}", "{}",
                "//", "'NEW'", "(q", "*Queries)", "(siw", "*ServerInterfaceWrapper)",
                "/tasks:", "/users:", "$ref:", "-"} -> ""
      [] t = "name:" -> "name"
      [] t = "GetOrder()" -> "GetOrder"
      [] t = "ListUsers()" -> "ListUsers"
      [] t = "ListTasks(w)" -> "ListTasks"
      [] t = "GetUser(w)" -> "GetUser"
      [] t = "Bar()" -> "Bar"
      [] OTHER -> t

\* the token consists of word characters only
IsWord(t) == WordPrefix(t) = t

\* the characters of a name, in blocks: a in b holds iff the blocks of a occur
\* consecutively in b
Chars(s) ==
    CASE s = "getorder" -> <<"get", "order">>
      [] s = "listusers" -> <<"list", "user", "s">>
      [] s = "orders" -> <<"order", "s">>
      [] s = "users" -> <<"user", "s">>
      [] s = "listtasks" -> <<"list", "task", "s">>
      [] s = "listtasksparams" -> <<"list", "task", "s", "params">>
      [] s = "getuser" -> <<"get", "user">>
      [] s = "tasks" -> <<"task", "s">>
      [] s = "ListTasks" -> <<"List", "Task", "s">>
      [] s = "ListTasksParams" -> <<"List", "Task", "s", "Params">>
      [] s = "GetUser" -> <<"Get", "User">>
      [] s = "Tasks" -> <<"Task", "s">>
      [] s = "GetOrder" -> <<"Get", "Order">>
      [] s = "ListUsers" -> <<"List", "User", "s">>
      [] OTHER -> <<s>>

\* a.startswith(b)
StartsWith(a, b) ==
    LET ca == Chars(a)
        cb == Chars(b)
    IN  Len(cb) <= Len(ca) /\ SubSeq(ca, 1, Len(cb)) = cb

\* a in b  (substring)
Contains(a, b) ==
    LET ca == Chars(a)
        cb == Chars(b)
    IN  \E i \in 0..(Len(cb) - Len(ca)) : SubSeq(cb, i + 1, i + Len(ca)) = ca

\* line.count("{") and line.count("}")
TokOpens(t) == IF t \in {"{", "{}"} THEN 1 ELSE 0
TokCloses(t) == IF t \in {"}", "{}"} THEN 1 ELSE 0

RECURSIVE SumOver(_, _)
SumOver(F(_), s) == IF s = << >> THEN 0 ELSE F(s[1]) + SumOver(F, Tail(s))

\* line.count('{') - line.count('}')
BraceDelta(line) == SumOver(TokOpens, line.toks) - SumOver(TokCloses, line.toks)

-----------------------------------------------------------------------------
(* SQL engine: the three extractors of cache_generator.py *)

FileRange(s, e) == [start_line |-> s, end_line |-> e]
FileIndex(path, total, ranges) == [file_path |-> path, total_lines |-> total, ranges |-> ranges]

\* (?i)^\s*create\s+<kw>\s+ : the first two tokens of the line
CreateHead(line, kw) ==
    /\ Len(line.toks) >= 3
    /\ Lower(line.toks[1]) = "create"
    /\ Lower(line.toks[2]) = kw

\* create_table_pattern: (?i)^\s*create\s+table\s+(?:if\s+not\s+exists\s+)?(\w+)
MatchCreateTable(line) ==
    LET t == line.toks
    IN  IF ~CreateHead(line, "table") THEN None
        ELSE IF /\ Len(t) >= 6
                /\ Lower(t[3]) = "if" /\ Lower(t[4]) = "not" /\ Lower(t[5]) = "exists"
                /\ WordPrefix(t[6]) # ""
             THEN WordPrefix(t[6])
        ELSE IF WordPrefix(t[3]) # "" THEN WordPrefix(t[3])
        ELSE None

\* create_type_pattern: (?i)^\s*create\s+type\s+(\w+)
MatchCreateType(line) ==
    IF CreateHead(line, "type") /\ WordPrefix(line.toks[3]) # ""
    THEN WordPrefix(line.toks[3]) ELSE None

\* create_function_pattern: (?i)^\s*create\s+function\s+(\w+)
MatchCreateFunction(line) ==
    IF CreateHead(line, "function") /\ WordPrefix(line.toks[3]) # ""
    THEN WordPrefix(line.toks[3]) ELSE None

\* the name captured by the first of the three patterns that matches, in the
\* order the loop tries them
MatchCreate(line) ==
    IF MatchCreateTable(line) # None THEN MatchCreateTable(line)
    ELSE IF MatchCreateType(line) # None THEN MatchCreateType(line)
    ELSE MatchCreateFunction(line)

\* stripped.startswith(';')
StartsWithSemicolon(line) == NonBlank(line) /\ line.toks[1] \in {";"}

\* the scan state of index_schema_file before the first line
SchemaScanInit == [ranges |-> EmptyDict, name |-> None, start |-> 0, indef |-> FALSE]

\* a loop in which a new CREATE line ends the open entity at that line
SchemaStepEndsAtCreateLine(st, line, n) ==
    LET m == MatchCreate(line)
    IN  IF m # None
        THEN [ranges |-> IF st.name # None /\ st.indef
                         THEN DictSet(st.ranges, st.name, FileRange(st.start, n))
                         ELSE st.ranges,
              name |-> m, start |-> n, indef |-> TRUE]
        ELSE IF st.indef /\ StartsWithSemicolon(line)
        THEN [ranges |-> IF st.name # None
                         THEN DictSet(st.ranges, st.name, FileRange(st.start, n))
                         ELSE st.ranges,
              name |-> None, start |-> st.start, indef |-> FALSE]
        ELSE st

\* one iteration of the loop of index_schema_file over line number n
SchemaStep(st, line, n) ==
    LET m == MatchCreate(line)
    IN  IF m # None
        THEN [ranges |-> IF st.name # None /\ st.indef
                         THEN DictSet(st.ranges, st.name, FileRange(st.start, n - 1))
                         ELSE st.ranges,
              name |-> m, start |-> n, indef |-> TRUE]
        ELSE IF st.indef /\ StartsWithSemicolon(line)
        THEN [ranges |-> IF st.name # None
                         THEN DictSet(st.ranges, st.name, FileRange(st.start, n))
                         ELSE st.ranges,
              name |-> None, start |-> st.start, indef |-> FALSE]
        ELSE st

RECURSIVE SchemaScan(_, _, _)
SchemaScan(lines, n, st) ==
    IF n > Len(lines) THEN st
    ELSE SchemaScan(lines, n + 1, SchemaStep(st, lines[n], n))

\* index_schema_file after the fingerprint check: the index of the file
ExtractSchema(path, lines) ==
    LET st == SchemaScan(lines, 1, SchemaScanInit)
    IN  FileIndex(path, Len(lines),
                  IF st.name # None /\ st.indef
                  THEN DictSet(st.ranges, st.name, FileRange(st.start, Len(lines)))
                  ELSE st.ranges)

\* query_pattern: ^--\s*name:\s*(\w+)\s*:(\w+)
MatchQueryMarker(line) ==
    LET t == line.toks
    IN  IF /\ line.ind = 0
           /\ Len(t) >= 4
           /\ t[1] = "--" /\ t[2] = "name:"
           /\ IsWord(t[3])
           /\ t[4] \in {":one", ":many", ":exec"}
        THEN t[3] ELSE None

QueryScanInit == [ranges |-> EmptyDict, name |-> None, start |-> 0]

\* an extractor that starts the range of a query on the line after its marker
QueryStepSkipsMarker(st, line, n) ==
    LET m == MatchQueryMarker(line)
    IN  IF m # None
        THEN [ranges |-> IF st.name # None
                         THEN DictSet(st.ranges, st.name, FileRange(st.start, n - 1))
                         ELSE st.ranges,
              name |-> m, start |-> n + 1]
        ELSE st

\* an extractor that ends the range of a query on the marker of the next one
QueryStepEndsAtMarker(st, line, n) ==
    LET m == MatchQueryMarker(line)
    IN  IF m # None
        THEN [ranges |-> IF st.name # None
                         THEN DictSet(st.ranges, st.name, FileRange(st.start, n))
                         ELSE st.ranges,
              name |-> m, start |-> n]
        ELSE st

\* one iteration of the loop of index_query_file
QueryStep(st, line, n) ==
    LET m == MatchQueryMarker(line)
    IN  IF m # None
        THEN [ranges |-> IF st.name # None
                         THEN DictSet(st.ranges, st.name, FileRange(st.start, n - 1))
                         ELSE st.ranges,
              name |-> m, start |-> n]
        ELSE st

RECURSIVE QueryScan(_, _, _)
QueryScan(lines, n, st) ==
    IF n > Len(lines) THEN st
    ELSE QueryScan(lines, n + 1, QueryStep(st, lines[n], n))

\* index_query_file after the fingerprint check
ExtractQuery(path, lines) ==
    LET st == QueryScan(lines, 1, QueryScanInit)
    IN  FileIndex(path, Len(lines),
                  IF st.name # None
                  THEN DictSet(st.ranges, st.name, FileRange(st.start, Len(lines)))
                  ELSE st.ranges)

\* a receiver "(q *Queries)": \([^)]+\) over two tokens
IsReceiver(t1, t2) == t1 \in {"(q", "(siw"} /\ t2 \in {"*Queries)", "*ServerInterfaceWrapper)"}

\* 'struct' in trimmed / 'interface' in trimmed
TokHasStruct(t) == t \in {"struct", "struct{", "Restructure"}
TokHasInterface(t) == t \in {"interface", "interface{"}
LineHas(P(_), line) == \E i \in 1..Len(line.toks) : P(line.toks[i])

\* func_pattern: ^func\s+(?:\([^)]+\)\s+)?(\w+)   (on the trimmed line)
MatchGoFunc(line) ==
    LET t == line.toks
    IN  IF Len(t) < 2 \/ t[1] # "func" THEN None
        ELSE IF Len(t) >= 4 /\ IsReceiver(t[2], t[3]) /\ WordPrefix(t[4]) # ""
             THEN WordPrefix(t[4])
        ELSE IF WordPrefix(t[2]) # "" THEN WordPrefix(t[2])
        ELSE None

\* struct_pattern: ^type\s+(\w+)\s+struct
MatchGoStruct(line) ==
    LET t == line.toks
    IN  IF Len(t) >= 3 /\ t[1] = "type" /\ IsWord(t[2]) /\ t[3] \in {"struct", "struct{"}
        THEN t[2] ELSE None

\* interface_pattern: ^type\s+(\w+)\s+interface
MatchGoInterface(line) ==
    LET t == line.toks
    IN  IF Len(t) >= 3 /\ t[1] = "type" /\ IsWord(t[2]) /\ t[3] \in {"interface", "interface{"}
        THEN t[2] ELSE None

\* type_pattern: ^type\s+(\w+)\s+  and neither 'struct' nor 'interface' in the line
MatchGoType(line) ==
    LET t == line.toks
    IN  IF /\ Len(t) >= 3 /\ t[1] = "type" /\ IsWord(t[2])
           /\ ~LineHas(TokHasStruct, line) /\ ~LineHas(TokHasInterface, line)
        THEN t[2] ELSE None

\* trimmed.startswith('//')
IsComment(line) == NonBlank(line) /\ line.toks[1] \in {"//"}

GenScanInit == [ranges |-> EmptyDict, name |-> None, start |-> 0, brace |-> 0, inent |-> FALSE]

\* a close that ends the previous entity at line n, the line that opens the next
GenCloseAtOpeningLine(st, n, cond) ==
    IF st.name # None /\ st.inent /\ cond
    THEN DictSet(st.ranges, st.name, FileRange(st.start, n))
    ELSE st.ranges

\* the previous entity closed at the line before n (when cond holds)
GenClose(st, n, cond) ==
    IF st.name # None /\ st.inent /\ cond
    THEN DictSet(st.ranges, st.name, FileRange(st.start, n - 1))
    ELSE st.ranges

\* one iteration of the loop of index_generated_file
GenStep(st, line, n) ==
    LET bc == st.brace + BraceDelta(line)
    IN  IF MatchGoFunc(line) # None
        THEN [ranges |-> GenClose(st, n, TRUE), name |-> MatchGoFunc(line),
              start |-> n, brace |-> BraceDelta(line), inent |-> TRUE]
        ELSE IF MatchGoStruct(line) # None
        THEN [ranges |-> GenClose(st, n, bc = 0), name |-> MatchGoStruct(line),
              start |-> n, brace |-> BraceDelta(line), inent |-> TRUE]
        ELSE IF MatchGoInterface(line) # None
        THEN [ranges |-> GenClose(st, n, bc = 0), name |-> MatchGoInterface(line),
              start |-> n, brace |-> BraceDelta(line), inent |-> TRUE]
        ELSE IF MatchGoType(line) # None
        THEN [ranges |-> GenClose(st, n, bc = 0), name |-> MatchGoType(line),
              start |-> n, brace |-> bc, inent |-> TRUE]
        ELSE IF st.inent /\ bc = 0 /\ NonBlank(line) /\ ~IsComment(line)
        THEN [ranges |-> IF st.name # None
                         THEN DictSet(st.ranges, st.name, FileRange(st.start, n))
                         ELSE st.ranges,
              name |-> None, start |-> st.start, brace |-> bc, inent |-> FALSE]
        ELSE [st EXCEPT !.brace = bc]

RECURSIVE GenScan(_, _, _)
GenScan(lines, n, st) ==
    IF n > Len(lines) THEN st
    ELSE GenScan(lines, n + 1, GenStep(st, lines[n], n))

\* an extractor without the step after the loop: the entity open at the end of
\* the file is not recorded
ExtractGeneratedDropsOpenEntity(path, lines) ==
    FileIndex(path, Len(lines), GenScan(lines, 1, GenScanInit).ranges)

\* index_generated_file after the fingerprint check
ExtractGenerated(path, lines) ==
    LET st == GenScan(lines, 1, GenScanInit)
    IN  FileIndex(path, Len(lines),
                  IF st.name # None /\ st.inent
                  THEN DictSet(st.ranges, st.name, FileRange(st.start, Len(lines)))
                  ELSE st.ranges)

\* _read_file_lines / _read_file_range_content: lines start..min(end, len)
ReadFileRange(lines, r) == SubSeq(lines, r.start_line, Min(r.end_line, Len(lines)))

-----------------------------------------------------------------------------
(* SQL engine: reference resolution and assembly of one query bundle *)

\* sql_keywords of extract_table_dependencies
SqlKeywords ==
    {"SELECT", "FROM", "WHERE", "JOIN", "INNER", "LEFT", "RIGHT", "FULL",
     "OUTER", "ON", "AS", "AND", "OR", "NOT", "IN", "EXISTS", "UNION",
     "INSERT", "UPDATE", "DELETE", "INTO", "SET", "VALUES", "WITH",
     "GROUP", "ORDER", "BY", "HAVING", "LIMIT", "OFFSET", "DISTINCT",
     "ALL", "ANY", "CASE", "WHEN", "THEN", "ELSE", "END", "CAST",
     "COALESCE", "NULL", "TRUE", "FALSE", "IS", "LIKE", "ILIKE",
     "BETWEEN", "ASC", "DESC"}

\* clause patterns that also take the word after WHERE for a table
ClausePatternsWithWhere ==
    << <<"from">>, <<"join">>, <<"into">>, <<"update">>,
       <<"delete", "from">>, <<"insert", "into">>, <<"where">> >>

\* the six clause patterns, each a sequence of keywords followed by (\w+)
ClausePatterns ==
    << <<"from">>, <<"join">>, <<"into">>, <<"update">>,
       <<"delete", "from">>, <<"insert", "into">> >>

\* pattern kws matches the token stream at position i: the keywords as whole
\* tokens in any case, then a token that starts with a word character
ClauseMatchAt(toks, i, kws) ==
    /\ i + Len(kws) <= Len(toks)
    /\ \A j \in 1..Len(kws) : Lower(toks[i + j - 1]) = kws[j]
    /\ WordPrefix(toks[i + Len(kws)]) # ""

RECURSIVE ClauseFindAll(_, _, _)
\* pattern.findall(query_sql): the captured names of the non-overlapping matches
\* from position i on, left to right
ClauseFindAll(toks, i, kws) ==
    IF i > Len(toks) THEN {}
    ELSE IF ClauseMatchAt(toks, i, kws)
    THEN {WordPrefix(toks[i + Len(kws)])} \cup ClauseFindAll(toks, i + Len(kws) + 1, kws)
    ELSE ClauseFindAll(toks, i + 1, kws)

\* the set `tables` of extract_table_dependencies
TableCandidates(text) ==
    LET toks == FlattenToks(text)
        found == UNION {ClauseFindAll(toks, 1, ClausePatterns[p]) : p \in 1..Len(ClausePatterns)}
    IN  {t \in found : Upper(t) \notin SqlKeywords}

\* the dependency record built for one table name
TableDependency(name, schema_index, schema_lines) ==
    [table_name |-> name,
     range |-> DictGet(schema_index.ranges, name),
     file |-> <<"schema", "sql">>,
     table_sql |-> ReadFileRange(schema_lines, DictGet(schema_index.ranges, name))]

RECURSIVE DepsInOrder(_, _, _)
\* the loop `for table_name in tables` taken in the order `order`
DepsInOrder(order, schema_index, schema_lines) ==
    IF order = << >> THEN << >>
    ELSE (IF DictHas(schema_index.ranges, order[1])
          THEN << TableDependency(order[1], schema_index, schema_lines) >>
          ELSE << >>)
         \o DepsInOrder(Tail(order), schema_index, schema_lines)

\* the orders in which a Python set of strings can be iterated: string hashes
\* are randomised per process, so every order can occur
SetIterationOrders(S) == Permutations1(S)

\* extract_table_dependencies needs to read schema.sql only when a candidate is
\* a key of the schema index
TableDepsReadsSchema(text, schema_index) ==
    \E t \in TableCandidates(text) : DictHas(schema_index.ranges, t)

\* extract_table_dependencies: the lists it can return
TableDependencies(text, schema_index, schema_lines) ==
    {DepsInOrder(o, schema_index, schema_lines) : o \in SetIterationOrders(TableCandidates(text))}

\* GeneratedCode record
GeneratedCode(type, name, lines, range, file) ==
    [type |-> type, name |-> name, code |-> ReadFileRange(lines, range),
     range |-> range, file |-> file]

\* the first index of generated_indices.values() whose file_path is path, if any
IndexForPath(generated_indices, path) ==
    IF \E i \in 1..Len(generated_indices) : generated_indices[i].v.file_path = path
    THEN Some(generated_indices[CHOOSE i \in 1..Len(generated_indices) :
                   /\ generated_indices[i].v.file_path = path
                   /\ \A j \in 1..(i - 1) : generated_indices[j].v.file_path # path].v)
    ELSE Nothing

\* the part of extract_generated_code that looks into query.sql.go
\* (go_file: the file on disk, if it exists)
QueryGoCode(query_name, generated_indices, go_file) ==
    LET idx == IndexForPath(generated_indices, <<"query", "sql", "go">>)
    IN  IF IsSome(go_file) /\ IsSome(idx) /\ DictHas(The(idx).ranges, query_name)
        THEN << GeneratedCode("function", query_name, The(go_file),
                              DictGet(The(idx).ranges, query_name), <<"query", "sql", "go">>) >>
        ELSE << >>

\* query_name.lower() in entity_name.lower() or entity_name.lower() in query_name.lower()
ModelMatches(query_name, entity_name) ==
    \/ Contains(Lower(query_name), Lower(entity_name))
    \/ Contains(Lower(entity_name), Lower(query_name))

RECURSIVE ModelsCodeFrom(_, _, _, _)
ModelsCodeFrom(query_name, ranges, i, models_lines) ==
    IF i > Len(ranges) THEN << >>
    ELSE (IF ModelMatches(query_name, ranges[i].k)
          THEN << GeneratedCode("struct", ranges[i].k, models_lines, ranges[i].v,
                                <<"models", "sql", "go">>) >>
          ELSE << >>)
         \o ModelsCodeFrom(query_name, ranges, i + 1, models_lines)

\* the part of extract_generated_code that looks into models.sql.go
ModelsGoCode(query_name, generated_indices, models_file) ==
    LET idx == IndexForPath(generated_indices, <<"models", "sql", "go">>)
    IN  IF IsSome(models_file) /\ IsSome(idx)
        THEN ModelsCodeFrom(query_name, The(idx).ranges, 1, The(models_file))
        ELSE << >>

\* extract_generated_code, when both keys are configured
ExtractGeneratedCode(query_name, generated_indices, go_file, models_file) ==
    QueryGoCode(query_name, generated_indices, go_file)
        \o ModelsGoCode(query_name, generated_indices, models_file)

\* QueryCache.to_dict(): the bundle of one query
QueryCache(query_name, query_sql, query_range, tables, generated_code) ==
    [unit |-> query_name, text |-> query_sql, range |-> query_range,
     file |-> <<"query", "sql">>, deps |-> tables, generated |-> generated_code]

-----------------------------------------------------------------------------
(* API engine: the three extractors of api_cache_generator.py *)

\* _read_range: lines max(start,1)..min(end, len)
ReadRange(lines, r) == SubSeq(lines, Max(r.start_line, 1), Min(r.end_line, Len(lines)))

\* stripped == "paths:"
IsPathsKey(line) == line.toks = <<"paths:">>
\* stripped == "schemas:"
IsSchemasKey(line) == line.toks = <<"schemas:">>
\* stripped.startswith("components:")
StartsComponents(line) == NonBlank(line) /\ line.toks[1] \in {"components:"}

\* path_re: ^\s{2}(/.+):\s*$
MatchPath(line) ==
    IF line.ind = 2 /\ Len(line.toks) = 1 /\ line.toks[1] \in {"/tasks:", "/users:"}
    THEN (IF line.toks[1] = "/tasks:" THEN "/tasks" ELSE "/users")
    ELSE None

\* method_re: ^\s{4}(get|post|put|delete|patch|options|head):\s*$  (IGNORECASE),
\* the captured method in upper case
MatchMethod(line) ==
    IF line.ind = 4 /\ Len(line.toks) = 1
    THEN CASE line.toks[1] \in {"get:", "GET:"} -> "GET"
           [] line.toks[1] \in {"post:", "POST:"} -> "POST"
           [] line.toks[1] \in {"put:", "PUT:"} -> "PUT"
           [] line.toks[1] \in {"delete:", "DELETE:"} -> "DELETE"
           [] line.toks[1] \in {"patch:", "PATCH:"} -> "PATCH"
           [] line.toks[1] \in {"options:", "OPTIONS:"} -> "OPTIONS"
           [] line.toks[1] \in {"head:", "HEAD:"} -> "HEAD"
           [] OTHER -> None
    ELSE None

\* s2.startswith("operationId:")
IsOperationId(line) == NonBlank(line) /\ line.toks[1] = "operationId:"
\* s2.split("operationId:", 1)[1].strip(): the identifier after the key ("" if none)
OperationIdOf(line) == IF Len(line.toks) >= 2 THEN line.toks[2] ELSE ""

\* an operation that is ended by the next path key only
EndsOperationAtPathOnly(line) == MatchPath(line) # None

\* path_re.match(l) or s.startswith("components:"): the line ends an operation
EndsOperation(line) == MatchPath(line) # None \/ StartsComponents(line)

PathEntry(op_id, method, path, range) ==
    [operation_id |-> op_id, method |-> method, path |-> path, range |-> range]

RECURSIVE OpEndLine(_, _, _)
\* the loop over k: the last line before the next path key or components:
OpEndLine(lines, k, end_line) ==
    IF k > Len(lines) \/ EndsOperation(lines[k]) THEN end_line
    ELSE OpEndLine(lines, k + 1, k)

RECURSIVE MethodBlockScanKeepsFirst(_, _, _)
\* a scan that leaves an operation already in the dict as it is
MethodBlockScanKeepsFirst(lines, j, st) ==
    IF j > Len(lines) \/ EndsOperation(lines[j]) THEN st.paths
    ELSE IF IsOperationId(lines[j])
    THEN (IF OperationIdOf(lines[j]) # "" /\ ~DictHas(st.paths, OperationIdOf(lines[j]))
          THEN DictSet(st.paths, OperationIdOf(lines[j]),
                       PathEntry(OperationIdOf(lines[j]), st.method, st.path,
                                 FileRange(st.path_line, OpEndLine(lines, j + 1, j))))
          ELSE st.paths)
    ELSE MethodBlockScanKeepsFirst(lines, j + 1, st)

RECURSIVE MethodBlockScan(_, _, _)
\* the loop over j after a method key: the paths dict after the scan
MethodBlockScan(lines, j, st) ==
    IF j > Len(lines) \/ EndsOperation(lines[j]) THEN st.paths
    ELSE IF IsOperationId(lines[j])
    THEN (IF OperationIdOf(lines[j]) # ""
          THEN DictSet(st.paths, OperationIdOf(lines[j]),
                       PathEntry(OperationIdOf(lines[j]), st.method, st.path,
                                 FileRange(st.path_line, OpEndLine(lines, j + 1, j))))
          ELSE st.paths)
    ELSE MethodBlockScan(lines, j + 1, st)

PathsScanInit ==
    [started |-> FALSE, path |-> None, path_line |-> 0, method |-> None, paths |-> EmptyDict]

RECURSIVE PathsScanIgnoresComponents(_, _, _)
\* an outer loop that does not stop at the components: line
PathsScanIgnoresComponents(lines, i, st) ==
    IF i > Len(lines) THEN st
    ELSE IF ~st.started
    THEN PathsScanIgnoresComponents(lines, i + 1, [st EXCEPT !.started = IsPathsKey(lines[i])])
    ELSE IF MatchPath(lines[i]) # None
    THEN PathsScanIgnoresComponents(lines, i + 1,
                   [st EXCEPT !.path = MatchPath(lines[i]), !.path_line = i, !.method = None])
    ELSE IF MatchMethod(lines[i]) # None /\ st.path # None
    THEN LET st1 == [st EXCEPT !.method = MatchMethod(lines[i])]
         IN  PathsScanIgnoresComponents(lines, i + 1,
                 [st1 EXCEPT !.paths = MethodBlockScan(lines, i + 1, st1)])
    ELSE PathsScanIgnoresComponents(lines, i + 1, st)

RECURSIVE PathsScan(_, _, _)
\* the outer loop of index_paths from line i on
PathsScan(lines, i, st) ==
    IF i > Len(lines) THEN st
    ELSE IF ~st.started
    THEN PathsScan(lines, i + 1, [st EXCEPT !.started = IsPathsKey(lines[i])])
    ELSE IF StartsComponents(lines[i]) THEN st
    ELSE IF MatchPath(lines[i]) # None
    THEN PathsScan(lines, i + 1,
                   [st EXCEPT !.path = MatchPath(lines[i]), !.path_line = i, !.method = None])
    ELSE IF MatchMethod(lines[i]) # None /\ st.path # None
    THEN LET st1 == [st EXCEPT !.method = MatchMethod(lines[i])]
         IN  PathsScan(lines, i + 1, [st1 EXCEPT !.paths = MethodBlockScan(lines, i + 1, st1)])
    ELSE PathsScan(lines, i + 1, st)

\* index_paths, indexing branch: the dict operationId -> PathEntry
ExtractPaths(lines) == PathsScan(lines, 1, PathsScanInit).paths

\* schema_header_re: ^\s{4}(\w+):\s*$ , the captured name
MatchSchemaHeader(line) ==
    IF line.ind = 4 /\ Len(line.toks) = 1
    THEN CASE line.toks[1] = "Task:" -> "Task"
           [] line.toks[1] = "User:" -> "User"
           [] line.toks[1] = "Error:" -> "Error"
           [] line.toks[1] = "type:" -> "type"
           [] line.toks[1] = "get:" -> "get"
           [] line.toks[1] = "post:" -> "post"
           [] line.toks[1] = "put:" -> "put"
           [] line.toks[1] = "delete:" -> "delete"
           [] line.toks[1] = "patch:" -> "patch"
           [] line.toks[1] = "options:" -> "options"
           [] line.toks[1] = "head:" -> "head"
           [] line.toks[1] = "GET:" -> "GET"
           [] line.toks[1] = "POST:" -> "POST"
           [] line.toks[1] = "PUT:" -> "PUT"
           [] line.toks[1] = "DELETE:" -> "DELETE"
           [] line.toks[1] = "PATCH:" -> "PATCH"
           [] line.toks[1] = "OPTIONS:" -> "OPTIONS"
           [] line.toks[1] = "HEAD:" -> "HEAD"
           [] line.toks[1] = "paths:" -> "paths"
           [] line.toks[1] = "schemas:" -> "schemas"
           [] line.toks[1] = "components:" -> "components"
           [] line.toks[1] = "tags:" -> "tags"
           [] line.toks[1] = "operationId:" -> "operationId"
           [] line.toks[1] = "name:" -> "name"
           [] OTHER -> None
    ELSE None

SchemaEntry(name, range) == [name |-> name, range |-> range]

\* s2.strip() and not s2.startswith(6 spaces) and not s2.startswith(4 spaces)
IsOutdented(line) == NonBlank(line) /\ line.ind < 4

RECURSIVE SchemaBodyEndStopsAtBlank(_, _)
\* a loop over j that also stops at a blank line
SchemaBodyEndStopsAtBlank(lines, j) ==
    IF j > Len(lines) THEN j
    ELSE IF MatchSchemaHeader(lines[j]) # None \/ IsOutdented(lines[j]) \/ ~NonBlank(lines[j])
    THEN j
    ELSE SchemaBodyEndStopsAtBlank(lines, j + 1)

RECURSIVE SchemaBodyEnd(_, _)
\* the loop over j after a schema header: the index j where it stops
SchemaBodyEnd(lines, j) ==
    IF j > Len(lines) THEN j
    ELSE IF MatchSchemaHeader(lines[j]) # None \/ IsOutdented(lines[j]) THEN j
    ELSE SchemaBodyEnd(lines, j + 1)

RECURSIVE ApiSchemasScan(_, _, _)
\* the outer loop of index_schemas from line i on
ApiSchemasScan(lines, i, st) ==
    IF i > Len(lines) THEN st
    ELSE IF ~st.started
    THEN ApiSchemasScan(lines, i + 1, [st EXCEPT !.started = IsSchemasKey(lines[i])])
    ELSE IF MatchSchemaHeader(lines[i]) # None
    THEN LET j == SchemaBodyEnd(lines, i + 1)
             name == MatchSchemaHeader(lines[i])
         IN  ApiSchemasScan(lines, j,
                 [st EXCEPT !.schemas = DictSet(st.schemas, name,
                                                SchemaEntry(name, FileRange(i, j - 1)))])
    ELSE ApiSchemasScan(lines, i + 1, st)

\* index_schemas, indexing branch: the dict name -> SchemaEntry
ExtractSchemas(lines) ==
    ApiSchemasScan(lines, 1, [started |-> FALSE, schemas |-> EmptyDict]).schemas

\* struct_re: ^type\s+(\w+)\s+struct\b
MatchBpStruct(line) ==
    LET t == line.toks
    IN  IF line.ind = 0 /\ Len(t) >= 3 /\ t[1] = "type" /\ IsWord(t[2])
           /\ t[3] \in {"struct", "struct{"}
        THEN t[2] ELSE None

\* func_re: ^func\s+\(siw \*ServerInterfaceWrapper\)\s+(\w+)\s*\(
MatchBpFunc(line) ==
    LET t == line.toks
    IN  IF line.ind = 0 /\ Len(t) >= 4 /\ t[1] = "func" /\ t[2] = "(siw"
           /\ t[3] = "*ServerInterfaceWrapper)"
           /\ t[4] \in {"ListTasks(w)", "GetUser(w)"}
        THEN WordPrefix(t[4]) ELSE None

\* const_var_re: ^(const|var)\s+(\w+)\b : the captured name (group 2)
MatchBpConstVar(line) ==
    LET t == line.toks
    IN  IF line.ind = 0 /\ Len(t) >= 2 /\ t[1] \in {"const", "var"} /\ WordPrefix(t[2]) # ""
        THEN WordPrefix(t[2]) ELSE None

\* type_re: ^type\s+(\w+)\s+[^\s]+
MatchBpType(line) ==
    LET t == line.toks
    IN  IF line.ind = 0 /\ Len(t) >= 3 /\ t[1] = "type" /\ IsWord(t[2])
        THEN t[2] ELSE None

BoilerplateEntity(type, name, range, lines) ==
    [type |-> type, name |-> name, file |-> <<"boilerplate", "gen", "go">>, range |-> range,
     code |-> ReadRange(lines, range)]

\* lineno - 1 if lineno > current_start else current_start
BpEndLine(st, n) == IF n > st.start THEN n - 1 ELSE st.start

\* the entities dict after closing the open entity before line n (when cond holds)
BpClose(st, n, cond, lines) ==
    IF st.name # None /\ st.type # None /\ cond
    THEN DictSet(st.entities, st.name,
                 BoilerplateEntity(st.type, st.name, FileRange(st.start, BpEndLine(st, n)), lines))
    ELSE st.entities

BpScanInit == [entities |-> EmptyDict, name |-> None, type |-> None, start |-> 0, brace |-> 0]

\* one iteration of the loop of index_boilerplate over line number n
BpStep(st, line, n, lines) ==
    LET bc == st.brace + BraceDelta(line)
    IN  IF MatchBpFunc(line) # None
        THEN [entities |-> BpClose(st, n, TRUE, lines), name |-> MatchBpFunc(line),
              type |-> "func", start |-> n, brace |-> BraceDelta(line)]
        ELSE IF MatchBpStruct(line) # None
        THEN [entities |-> BpClose(st, n, bc = 0, lines), name |-> MatchBpStruct(line),
              type |-> "struct", start |-> n, brace |-> BraceDelta(line)]
        ELSE IF MatchBpConstVar(line) # None
        THEN [entities |-> BpClose(st, n, bc = 0, lines), name |-> MatchBpConstVar(line),
              type |-> line.toks[1], start |-> n, brace |-> bc]
        ELSE IF MatchBpType(line) # None
        THEN [entities |-> BpClose(st, n, bc = 0, lines), name |-> MatchBpType(line),
              type |-> "type", start |-> n, brace |-> bc]
        ELSE IF st.name # None /\ st.type # None /\ bc = 0 /\ NonBlank(line) /\ ~IsComment(line)
        THEN [entities |-> BpClose(st, n, TRUE, lines), name |-> None, type |-> None,
              start |-> st.start, brace |-> bc]
        ELSE [st EXCEPT !.brace = bc]

RECURSIVE BpScan(_, _, _)
BpScan(lines, n, st) ==
    IF n > Len(lines) THEN st
    ELSE BpScan(lines, n + 1, BpStep(st, lines[n], n, lines))

\* index_boilerplate, indexing branch: the dict name -> BoilerplateEntity
ExtractBoilerplate(lines) ==
    LET st == BpScan(lines, 1, BpScanInit)
    IN  IF st.name # None /\ st.type # None
        THEN DictSet(st.entities, st.name,
                     BoilerplateEntity(st.type, st.name, FileRange(st.start, Len(lines)), lines))
        ELSE st.entities

-----------------------------------------------------------------------------
(* API engine: reference resolution and assembly of one operation bundle *)

\* the identifier captured by #/components/schemas/([A-Za-z0-9_]+) in a token
RefOf(t) ==
    CASE t = "'#/components/schemas/Task'" -> "Task"
      [] t = "'#/components/schemas/User'" -> "User"
      [] t = "'#/components/schemas/Missing'" -> "Missing"
      [] OTHER -> None

RECURSIVE SchemaDepsFrom(_, _, _, _, _)
\* the loop of _extract_schema_dependencies over the matches from token i on
SchemaDepsFrom(toks, i, seen, schema_index, spec_lines) ==
    IF i > Len(toks) THEN << >>
    ELSE LET m == RefOf(toks[i])
         IN  IF m = None \/ m \in seen
             THEN SchemaDepsFrom(toks, i + 1, seen, schema_index, spec_lines)
             ELSE (IF DictHas(schema_index, m)
                   THEN << [name |-> m,
                            range |-> DictGet(schema_index, m).range,
                            file |-> <<"taskflow", "yaml">>,
                            text |-> ReadRange(spec_lines, DictGet(schema_index, m).range)] >>
                   ELSE << >>)
                  \o SchemaDepsFrom(toks, i + 1, seen \cup {m}, schema_index, spec_lines)

\* _extract_schema_dependencies
ExtractSchemaDependencies(op_block, schema_index, spec_lines) ==
    SchemaDepsFrom(FlattenToks(op_block), 1, {}, schema_index, spec_lines)

\* name == op_id or name.startswith(op_id) or op_id in name
BoilerplateMatches(name, op_id) ==
    name = op_id \/ StartsWith(name, op_id) \/ Contains(op_id, name)

RECURSIVE BoilerplateFrom(_, _, _)
BoilerplateFrom(op_id, index, i) ==
    IF i > Len(index) THEN << >>
    ELSE (IF BoilerplateMatches(index[i].k, op_id) THEN << index[i].v >> ELSE << >>)
         \o BoilerplateFrom(op_id, index, i + 1)

\* _extract_boilerplate_entities_for_op
ExtractBoilerplateEntitiesForOp(op_id, boilerplate_index) ==
    BoilerplateFrom(op_id, boilerplate_index, 1)

\* generate_operation_cache: the bundle of one operation
OperationCache(op, schema_index, boilerplate_index, spec_lines) ==
    LET op_block == ReadRange(spec_lines, op.range)
    IN  [unit |-> op.operation_id, path |-> op.path, method |-> op.method,
         file |-> <<"taskflow", "yaml">>, range |-> op.range, text |-> op_block,
         deps |-> ExtractSchemaDependencies(op_block, schema_index, spec_lines),
         generated |-> ExtractBoilerplateEntitiesForOp(op.operation_id, boilerplate_index)]

-----------------------------------------------------------------------------
(* The files of a configuration, and the contents the model gives them *)

SchemaFile == <<"schema", "sql">>
QueryFile == <<"query", "sql">>
QueryGoFile == <<"query", "sql", "go">>
ModelsGoFile == <<"models", "sql", "go">>
SpecFile == <<"taskflow", "yaml">>
BoilerplateFile == <<"boilerplate", "gen", "go">>

\* config["generated"][key]: the generated file a key of the configuration names
GenPath(key) == IF key = "query_sql_go" THEN QueryGoFile ELSE ModelsGoFile

\* Path(p).stem : the file name without its last suffix
Stem(path) == SubSeq(path, 1, Len(path) - 1)
\* f"{stem}.index.json"
IndexFileName(stem) == stem \o <<"index", "json">>

SchemaIndexFile == <<"schema", "sql", "index", "json">>
QueryIndexFile == <<"query", "sql", "index", "json">>
PathsIndexFile == <<"taskflow", "paths", "index", "json">>
SchemasIndexFile == <<"taskflow", "schemas", "index", "json">>
BoilerplateIndexFile == <<"boilerplate", "gen", "go", "index", "json">>

\* the keys of the fingerprint table used by the API engine
PathsKey == <<"taskflow", "yaml">>
SchemasKey == <<"taskflow", "yaml", "schemas">>
BoilerplateKey == <<"boilerplate", "gen", "go">>

SchemaSqlA ==
    << L(0, <<"CREATE", "TABLE", "orders", "(">>),
       L(2, <<"id", "int">>),
       L(0, <<");">>),
       L(0, <<"CREATE", "TABLE", "users", "(">>),
       L(0, <<");">>) >>

SchemaSqlB ==
    << L(0, <<"CREATE", "TABLE", "orders", "(">>),
       L(2, <<"id", "int">>),
       L(2, <<"status", "text">>),
       L(0, <<");">>),
       L(0, <<"CREATE", "TABLE", "users", "(">>),
       L(0, <<");">>) >>

QuerySqlA ==
    << L(0, <<"--", "name:", "GetOrder", ":one">>),
       L(0, <<"SELECT", "*", "FROM", "orders", "JOIN", "users">>),
       L(0, <<"--", "name:", "ListUsers", ":many">>),
       L(0, <<"SELECT", "*", "FROM", "users", "WHERE", "status", "=", "'NEW'">>) >>

QuerySqlB ==
    << L(0, << >>),
       L(0, <<"--", "name:", "ListUsers", ":many">>),
       L(0, <<"SELECT", "*", "FROM", "users">>),
       L(0, <<"--", "name:", "Ping", ":one">>),
       L(0, <<"SELECT", "1">>) >>

QueryGoA ==
    << L(0, <<"//", "generated">>),
       L(0, <<"func", "(q", "*Queries)", "GetOrder()", "{">>),
       L(0, <<"}">>),
       L(0, <<"func", "(q", "*Queries)", "ListUsers()", "{">>),
       L(0, <<"}">>) >>

QueryGoB ==
    << L(0, <<"func", "(q", "*Queries)", "ListUsers()", "{">>),
       L(0, <<"}">>) >>

ModelsGoA ==
    << L(0, <<"type", "Order", "struct", "{">>),
       L(0, <<"}">>),
       L(0, <<"type", "User", "struct", "{">>),
       L(0, <<"}">>) >>

ModelsGoB ==
    << L(0, <<"type", "User", "struct", "{">>),
       L(0, <<"}">>) >>

TaskflowA ==
    << L(0, <<"paths:">>),
       L(2, <<"/tasks:">>),
       L(4, <<"get:">>),
       L(6, <<"operationId:", "ListTasks">>),
       L(6, <<"$ref:", "'#/components/schemas/Task'">>),
       L(0, <<"components:">>),
       L(2, <<"schemas:">>),
       L(4, <<"Task:">>),
       L(6, <<"type:", "object">>) >>

TaskflowB ==
    << L(0, <<"paths:">>),
       L(2, <<"/tasks:">>),
       L(4, <<"get:">>),
       L(6, <<"operationId:", "ListTasks">>),
       L(6, <<"$ref:", "'#/components/schemas/User'">>),
       L(2, <<"/users:">>),
       L(4, <<"post:">>),
       L(6, <<"operationId:", "GetUser">>),
       L(0, <<"components:">>),
       L(2, <<"schemas:">>),
       L(4, <<"User:">>),
       L(6, <<"type:", "object">>) >>

BoilerplateA ==
    << L(0, <<"type", "ListTasksParams", "struct", "{">>),
       L(0, <<"}">>),
       L(0, <<"func", "(siw", "*ServerInterfaceWrapper)", "ListTasks(w)", "{">>),
       L(0, <<"}">>) >>

BoilerplateB ==
    << L(0, <<"func", "(siw", "*ServerInterfaceWrapper)", "GetUser(w)", "{">>),
       L(0, <<"}">>) >>

\* every content a file of the model can have
AllContents ==
    << SchemaSqlA, SchemaSqlB, QuerySqlA, QuerySqlB, QueryGoA, QueryGoB,
       ModelsGoA, ModelsGoB, TaskflowA, TaskflowB, BoilerplateA, BoilerplateB >>

\* the contents the model gives a file
ContentsOf(f) ==
    CASE f = SchemaFile -> {SchemaSqlA, SchemaSqlB}
      [] f = QueryFile -> {QuerySqlA, QuerySqlB}
      [] f = QueryGoFile -> {QueryGoA, QueryGoB}
      [] f = ModelsGoFile -> {ModelsGoA, ModelsGoB}
      [] f = SpecFile -> {TaskflowA, TaskflowB}
      [] f = BoilerplateFile -> {BoilerplateA, BoilerplateB}

\* the content a file has in the initial state
InitialContent(f) ==
    CASE f = SchemaFile -> SchemaSqlA
      [] f = QueryFile -> QuerySqlA
      [] f = QueryGoFile -> QueryGoA
      [] f = ModelsGoFile -> ModelsGoA
      [] f = SpecFile -> TaskflowA
      [] f = BoilerplateFile -> BoilerplateA

\* hashlib.sha256(content).hexdigest(), as an injective function of the content:
\* the digest of a content is its number in AllContents; a content that is
\* not listed there has a digest of its own
FileHash(lines) ==
    IF \E i \in 1..Len(AllContents) : AllContents[i] = lines
    THEN CHOOSE i \in 1..Len(AllContents) : AllContents[i] = lines
    ELSE <<"sha256", lines>>

-----------------------------------------------------------------------------
(* Fingerprint store and index persistence *)

\* a fingerprint check that reports a change without staging the new digest
ShouldReindexForgets(h, key, file) ==
    IF ~IsSome(file) THEN [result |-> FALSE, hashes |-> h]
    ELSE IF key \notin DOMAIN h \/ h[key] # FileHash(The(file))
    THEN [result |-> TRUE, hashes |-> h]
    ELSE [result |-> FALSE, hashes |-> h]

\* a fingerprint check that reports a change for every file that exists
ShouldUpdateFileAlways(h, file, key) ==
    IF ~IsSome(file) THEN [result |-> FALSE, hashes |-> h]
    ELSE [result |-> TRUE, hashes |-> Store(h, key, FileHash(The(file)))]

\* a fingerprint check that forgets the digest of a file that is gone
ShouldReindexDropsMissing(h, key, file) ==
    IF ~IsSome(file) THEN [result |-> FALSE, hashes |-> [k \in DOMAIN h \ {key} |-> h[k]]]
    ELSE IF key \notin DOMAIN h \/ h[key] # FileHash(The(file))
    THEN [result |-> TRUE, hashes |-> Store(h, key, FileHash(The(file)))]
    ELSE [result |-> FALSE, hashes |-> h]

\* a fingerprint check that looks only at whether a digest is stored
ShouldUpdateFileOnce(h, file, key) ==
    IF ~IsSome(file) THEN [result |-> FALSE, hashes |-> h]
    ELSE IF key \notin DOMAIN h
    THEN [result |-> TRUE, hashes |-> Store(h, key, FileHash(The(file)))]
    ELSE [result |-> FALSE, hashes |-> h]

\* a generator that starts every run with an empty fingerprint table
LoadHashesIgnored(file) == EmptyMap

\* ApiCacheGenerator._should_reindex(rel_key, path): the value returned and the
\* in-memory table afterwards (file: the file at path, if it exists)
ShouldReindex(h, key, file) ==
    IF ~IsSome(file) THEN [result |-> FALSE, hashes |-> h]
    ELSE IF key \notin DOMAIN h \/ h[key] # FileHash(The(file))
    THEN [result |-> TRUE, hashes |-> Store(h, key, FileHash(The(file)))]
    ELSE [result |-> FALSE, hashes |-> h]

\* CacheGenerator._should_update_file(file_path, relative_path)
ShouldUpdateFile(h, file, key) ==
    IF ~IsSome(file) THEN [result |-> FALSE, hashes |-> h]
    ELSE IF key \notin DOMAIN h \/ h[key] # FileHash(The(file))
    THEN [result |-> TRUE, hashes |-> Store(h, key, FileHash(The(file)))]
    ELSE [result |-> FALSE, hashes |-> h]

\* _load_hashes: the table read from the hashes file, {} when there is none
LoadHashes(file) == IF IsSome(file) THEN The(file) ELSE EmptyMap

\* json.load in _load_hashes raises: the hashes file exists and is truncated
LoadHashesRaises(file) == IsSome(file) /\ ~IsJson(file)

\* FileIndex.to_dict(): the artifact written by save_index
IndexToDict(index) ==
    [file_path |-> index.file_path, total_lines |-> index.total_lines,
     ranges |-> [i \in 1..Len(index.ranges) |->
                    [k |-> index.ranges[i].k,
                     v |-> [start_line |-> index.ranges[i].v.start_line,
                            end_line |-> index.ranges[i].v.end_line]]]]

\* a loader that reads every range one line short
IndexFromDictShort(data) ==
    FileIndex(data.file_path, data.total_lines,
              [i \in 1..Len(data.ranges) |->
                  [k |-> data.ranges[i].k,
                   v |-> FileRange(data.ranges[i].v.start_line,
                                   data.ranges[i].v.end_line - 1)]])

\* the FileIndex rebuilt from a loaded artifact in generate()
IndexFromDict(data) ==
    FileIndex(data.file_path, data.total_lines,
              [i \in 1..Len(data.ranges) |->
                  [k |-> data.ranges[i].k,
                   v |-> FileRange(data.ranges[i].v.start_line, data.ranges[i].v.end_line)]])

\* the artifact index_paths writes
PathsToDict(paths, lines) ==
    [file_path |-> SpecFile, total_lines |-> Len(lines), paths |-> paths]

\* the dict index_paths rebuilds from a loaded artifact
PathsFromDict(data) ==
    [i \in 1..Len(data.paths) |->
        [k |-> data.paths[i].k,
         v |-> PathEntry(data.paths[i].k, data.paths[i].v.method, data.paths[i].v.path,
                         FileRange(data.paths[i].v.range.start_line,
                                   data.paths[i].v.range.end_line))]]

\* the artifact index_schemas writes
SchemasToDict(schemas, lines) ==
    [file_path |-> SpecFile, total_lines |-> Len(lines), schemas |-> schemas]

\* the dict index_schemas rebuilds from a loaded artifact
SchemasFromDict(data) ==
    [i \in 1..Len(data.schemas) |->
        [k |-> data.schemas[i].k,
         v |-> SchemaEntry(data.schemas[i].k,
                           FileRange(data.schemas[i].v.range.start_line,
                                     data.schemas[i].v.range.end_line))]]

\* the artifact index_boilerplate writes
BoilerplateToDict(entities, lines) ==
    [file_path |-> BoilerplateFile, total_lines |-> Len(lines), entities |-> entities]

\* the dict index_boilerplate rebuilds from a loaded artifact
BoilerplateFromDict(data) ==
    [i \in 1..Len(data.entities) |->
        [k |-> data.entities[i].k,
         v |-> [type |-> data.entities[i].v.type, name |-> data.entities[i].k,
                file |-> data.entities[i].v.file,
                range |-> FileRange(data.entities[i].v.range.start_line,
                                    data.entities[i].v.range.end_line),
                code |-> data.entities[i].v.code]]]

-----------------------------------------------------------------------------
(* State *)

VARIABLES
    config,      \* the configuration document: engine, generated keys, boilerplate key
    disk,        \* source file name -> the file's lines, if the file exists
    hashesFile,  \* the persisted fingerprint table (hashes.json / hashes_api.json), if any
    indexFiles,  \* index artifact name -> the artifact in the cache directory, if any
    pc,          \* position of the generator process in generate(); "idle": no process
    hashes,      \* self.hashes of the running process
    idx,         \* the indices the running process holds
    todo,        \* the rest of the loop the process is in (generated keys, or units)
    runs,        \* processes started so far
    edits,       \* changes made to source files so far
    run,         \* record of the current (or, when idle, the last) run
    hist         \* record kept across runs

vars == <<config, disk, hashesFile, indexFiles, pc, hashes, idx, todo, runs, edits, run, hist>>

GenKeys == <<"query_sql_go", "models_sql_go">>

\* the configurations of the model
Configs ==
    {[engine |-> "sql", generated |-> g, boilerplate_file |-> FALSE] :
        g \in {Some(GenKeys), Some(<< >>), Nothing}}
    \cup {[engine |-> "api", generated |-> Nothing, boilerplate_file |-> b] : b \in BOOLEAN}

SourceFiles(engine) ==
    IF engine = "sql" THEN {SchemaFile, QueryFile, QueryGoFile, ModelsGoFile}
    ELSE {SpecFile, BoilerplateFile}

IndexArtifacts(engine) ==
    IF engine = "sql"
    THEN {SchemaIndexFile, QueryIndexFile,
          IndexFileName(Stem(QueryGoFile)), IndexFileName(Stem(ModelsGoFile))}
    ELSE {PathsIndexFile, SchemasIndexFile, BoilerplateIndexFile}

\* the keys of the fingerprint table that hold the digest of a file
KeysOf(f) == IF f = SpecFile THEN {PathsKey, SchemasKey} ELSE {f}
\* the file whose digest a key of the fingerprint table holds
FileOfKey(key) == IF key = SchemasKey THEN SpecFile ELSE key

\* the keys of the fingerprint table an engine uses
KeysOfEngine(engine) ==
    IF engine = "sql" THEN SourceFiles("sql") ELSE {PathsKey, SchemasKey, BoilerplateKey}

\* the keys a run of the configuration checks: the generated files only when
\* config["generated"] names them
TrackedKeys ==
    IF config.engine = "sql"
    THEN {SchemaFile, QueryFile}
         \cup (IF IsSome(config.generated)
               THEN {GenPath(The(config.generated)[i]) : i \in 1..Len(The(config.generated))}
               ELSE {})
    ELSE KeysOfEngine("api")

\* the index artifact the engine saves and loads for a key of the fingerprint table
ArtifactOf(key) ==
    CASE key = SchemaFile -> SchemaIndexFile
      [] key = QueryFile -> QueryIndexFile
      [] key = PathsKey -> PathsIndexFile
      [] key = SchemasKey -> SchemasIndexFile
      [] key = BoilerplateKey -> BoilerplateIndexFile
      [] OTHER -> IndexFileName(Stem(key))

IdxNone ==
    [schema |-> Nothing, query |-> Nothing, gen |-> EmptyDict,
     paths |-> EmptyDict, schemas |-> EmptyDict, boilerplate |-> EmptyDict]

\* no generated-source document is available to a run: its path is not
\* configured, or the file is not on disk
GenUnavailable ==
    IF config.engine = "sql"
    THEN \/ ~IsSome(config.generated)
         \/ \A i \in 1..Len(The(config.generated)) :
                ~IsSome(disk[GenPath(The(config.generated)[i])])
    ELSE ~config.boilerplate_file \/ ~IsSome(disk[BoilerplateFile])

RunNone ==
    [outcome |-> "none", genMissing |-> FALSE, flushes |-> 0, atStart |-> Nothing,
     staged |-> {}, extracted |-> {}, out |-> EmptyMap, units |-> {}, lastCall |-> Nothing,
     seen |-> EmptyMap, skipped |-> {}, produced |-> EmptyMap, writer |-> EmptyMap,
     top |-> {}, failed |-> {}]

Init ==
    /\ config \in Configs
    /\ disk = [f \in SourceFiles(config.engine) |-> Some(InitialContent(f))]
    /\ hashesFile = Nothing
    /\ indexFiles = [a \in IndexArtifacts(config.engine) |-> Nothing]
    /\ pc = "idle"
    /\ hashes = EmptyMap
    /\ idx = IdxNone
    /\ todo = << >>
    /\ runs = 0
    /\ edits = 0
    /\ run = RunNone
    /\ hist = [pending |-> {}, prevOut |-> EmptyMap, cmp |-> FALSE, dirty |-> FALSE,
               seen |-> [key \in KeysOfEngine(config.engine) |-> Nothing]]

-----------------------------------------------------------------------------
(* Bookkeeping of a run (history, read by the properties only) *)

\* the persisted digest of key is the digest of the file as it is now
Unchanged(key, file) ==
    /\ IsSome(file)
    /\ IsJson(hashesFile)
    /\ key \in DOMAIN The(hashesFile)
    /\ The(hashesFile)[key] = FileHash(The(file))

\* the index the extractor of a key produces from the content of its file
ExtractorIndex(key, lines) ==
    CASE key = SchemaFile -> ExtractSchema(SchemaFile, lines)
      [] key = QueryFile -> ExtractQuery(QueryFile, lines)
      [] key = PathsKey -> ExtractPaths(lines)
      [] key = SchemasKey -> ExtractSchemas(lines)
      [] key = BoilerplateKey -> ExtractBoilerplate(lines)
      [] OTHER -> ExtractGenerated(key, lines)

\* the run record after a fingerprint check of key that returned r, followed
\* (scanned) or not by a scan of the file by its extractor
Called(key, file, r, scanned, artifact) ==
    [run EXCEPT
        !.lastCall = Some([key |-> key,
                           cur |-> IF IsSome(file) THEN Some(FileHash(The(file))) ELSE Nothing,
                           before |-> hashes,
                           result |-> r.result,
                           unchanged |-> Unchanged(key, file),
                           artifact |-> IsSome(indexFiles[artifact]),
                           scanned |-> scanned]),
        !.staged = IF r.result THEN @ \cup {key} ELSE @,
        !.skipped = IF r.result THEN @ ELSE @ \cup {key},
        !.produced = IF scanned THEN Store(@, key, ExtractorIndex(key, The(file))) ELSE @,
        !.writer = IF scanned THEN Store(@, artifact, key) ELSE @,
        !.extracted = IF scanned
                      THEN @ \cup {[key |-> key, unchanged |-> Unchanged(key, file),
                                    artifact |-> IsSome(indexFiles[artifact])]}
                      ELSE @]

\* the history after a run has completed: for every key the run checked, the
\* content the file had in that run
Completed ==
    [hist EXCEPT !.seen = [key \in DOMAIN @ |->
                              IF key \in TrackedKeys /\ IsSome(disk[FileOfKey(key)])
                              THEN disk[FileOfKey(key)]
                              ELSE @[key]]]

\* the process ends without reaching the end of generate()
Interrupted(r, how) ==
    /\ pc' = "idle"
    /\ hashes' = EmptyMap
    /\ idx' = IdxNone
    /\ todo' = << >>
    /\ run' = [r EXCEPT !.outcome = how, !.lastCall = Nothing]
    /\ hist' = [hist EXCEPT !.pending = @ \cup r.staged]

-----------------------------------------------------------------------------
(* The environment: processes start and die, source files change *)

\* main(): a generator is constructed (the fingerprint table is loaded) and
\* generate() begins.  ApiCacheGenerator.__init__ reads config["boilerplate_file"]
\* and raises KeyError when the key is missing; _load_hashes raises
\* JSONDecodeError on a truncated hashes file.
StartRun ==
    /\ pc = "idle"
    /\ runs < MaxRuns
    /\ runs' = runs + 1
    /\ LET fresh == [RunNone EXCEPT !.outcome = "running", !.genMissing = GenUnavailable,
                                    !.atStart = hashesFile, !.seen = hist.seen,
                                    !.produced = run.produced, !.writer = run.writer]
           h1 == [pending |-> IF run.outcome = "completed" THEN {} ELSE hist.pending,
                  prevOut |-> IF run.outcome = "completed" /\ ~hist.dirty
                              THEN run.out ELSE EmptyMap,
                  cmp |-> run.outcome = "completed" /\ ~hist.dirty,
                  dirty |-> FALSE,
                  seen |-> hist.seen]
       IN  IF (config.engine = "api" /\ ~config.boilerplate_file) \/ LoadHashesRaises(hashesFile)
           THEN /\ run' = [fresh EXCEPT !.outcome = "aborted"]
                /\ hist' = h1
                /\ UNCHANGED <<pc, hashes, idx, todo>>
           ELSE /\ run' = fresh
                /\ hist' = h1
                /\ hashes' = LoadHashes(hashesFile)
                /\ pc' = IF config.engine = "sql" THEN "schema" ELSE "paths"
                /\ UNCHANGED <<idx, todo>>
    /\ UNCHANGED <<config, disk, hashesFile, indexFiles, edits>>

\* a process that writes its in-memory table when it is killed
CrashSavingHashes ==
    /\ pc # "idle"
    /\ hashesFile' = Some(hashes)
    /\ Interrupted(run, "crashed")
    /\ UNCHANGED <<config, disk, indexFiles, runs, edits>>

\* the process is killed at some point of generate() outside the writes of
\* the index artifacts and of the hashes file
Crash ==
    /\ pc # "idle"
    /\ Interrupted(run, "crashed")
    /\ UNCHANGED <<config, disk, hashesFile, indexFiles, runs, edits>>

\* the key that generate() checks at an indexing step
StepKey ==
    CASE pc = "schema" -> SchemaFile
      [] pc = "query" -> QueryFile
      [] pc = "gen" -> GenPath(Head(todo))
      [] pc = "paths" -> PathsKey
      [] pc = "schemas" -> SchemasKey
      [] pc = "boilerplate" -> BoilerplateKey

\* the process is killed inside the write of an index artifact, between the
\* open(..., "w") that truncates the file and the end of json.dump
\* (save_index; the end of index_paths, index_schemas, index_boilerplate):
\* the fingerprint check and the scan of the step are done, the artifact is
\* left truncated
CrashInSaveIndex ==
    /\ pc \in {"schema", "query", "gen", "paths", "schemas", "boilerplate"}
    /\ pc = "gen" => IsSome(config.generated)
    /\ LET key == StepKey
           file == disk[FileOfKey(key)]
           artifact == ArtifactOf(key)
           r == IF config.engine = "sql" THEN ShouldUpdateFile(hashes, file, key)
                ELSE ShouldReindex(hashes, key, file)
           scans == IF config.engine = "sql" THEN r.result
                    ELSE IsSome(file) /\ (r.result \/ ~IsSome(indexFiles[artifact]))
       IN  /\ scans
           /\ indexFiles' = [indexFiles EXCEPT ![artifact] = Truncated]
           /\ Interrupted(Called(key, file, r, TRUE, artifact), "crashed")
    /\ UNCHANGED <<config, disk, hashesFile, runs, edits>>

\* the process is killed inside _save_hashes, between the open(..., "w") that
\* truncates the hashes file and the end of json.dump
CrashInSaveHashes ==
    /\ pc = "flush"
    /\ hashesFile' = Truncated
    /\ Interrupted([run EXCEPT !.flushes = @ + 1], "crashed in flush")
    /\ UNCHANGED <<config, disk, indexFiles, runs, edits>>

\* between two runs a source file is rewritten, created or deleted
EditFile ==
    /\ pc = "idle"
    /\ edits < MaxEdits
    /\ \E f \in DOMAIN disk :
        \E c \in {Some(x) : x \in ContentsOf(f)} \cup {Nothing} :
            /\ c # disk[f]
            /\ disk' = [disk EXCEPT ![f] = c]
            /\ hist' = [hist EXCEPT !.pending = @ \ KeysOf(f), !.dirty = TRUE]
    /\ edits' = edits + 1
    /\ UNCHANGED <<config, hashesFile, indexFiles, pc, hashes, idx, todo, runs, run>>

\* between two runs an index artifact is removed from the cache directory
RemoveArtifact ==
    /\ pc = "idle"
    /\ edits < MaxEdits
    /\ \E a \in DOMAIN indexFiles :
        /\ IsSome(indexFiles[a])
        /\ indexFiles' = [indexFiles EXCEPT ![a] = Nothing]
    /\ edits' = edits + 1
    /\ hist' = [hist EXCEPT !.dirty = TRUE]
    /\ UNCHANGED <<config, disk, hashesFile, pc, hashes, idx, todo, runs, run>>

-----------------------------------------------------------------------------
(* CacheGenerator.generate(), step by step *)

\* schema_index = self.index_schema_file(); if schema_index: self.save_index(...)
SqlIndexSchema ==
    /\ config.engine = "sql"
    /\ pc = "schema"
    /\ LET file == disk[SchemaFile]
           r == ShouldUpdateFile(hashes, file, SchemaFile)
           index == ExtractSchema(SchemaFile, The(file))
       IN  /\ hashes' = r.hashes
           /\ idx' = [idx EXCEPT !.schema = IF r.result THEN Some(index) ELSE Nothing]
           /\ indexFiles' = IF r.result
                            THEN [indexFiles EXCEPT ![SchemaIndexFile] = Some(IndexToDict(index))]
                            ELSE indexFiles
           /\ run' = Called(SchemaFile, file, r, r.result, SchemaIndexFile)
    /\ pc' = "query"
    /\ UNCHANGED <<config, disk, hashesFile, todo, runs, edits, hist>>

\* query_index = self.index_query_file(); if query_index: self.save_index(...)
SqlIndexQuery ==
    /\ config.engine = "sql"
    /\ pc = "query"
    /\ LET file == disk[QueryFile]
           r == ShouldUpdateFile(hashes, file, QueryFile)
           index == ExtractQuery(QueryFile, The(file))
       IN  /\ hashes' = r.hashes
           /\ idx' = [idx EXCEPT !.query = IF r.result THEN Some(index) ELSE Nothing]
           /\ indexFiles' = IF r.result
                            THEN [indexFiles EXCEPT ![QueryIndexFile] = Some(IndexToDict(index))]
                            ELSE indexFiles
           /\ run' = Called(QueryFile, file, r, r.result, QueryIndexFile)
    /\ todo' = IF IsSome(config.generated) THEN The(config.generated) ELSE << >>
    /\ pc' = IF IsSome(config.generated) /\ The(config.generated) = << >> THEN "load" ELSE "gen"
    /\ UNCHANGED <<config, disk, hashesFile, runs, edits, hist>>

\* one iteration of `for gen_file_key, gen_file_path in self.config["generated"].items()`
\* (first loop); self.config["generated"] raises KeyError when the section is missing
SqlIndexGenerated ==
    /\ config.engine = "sql"
    /\ pc = "gen"
    /\ IF ~IsSome(config.generated)
       THEN /\ Interrupted(run, "aborted")
            /\ UNCHANGED indexFiles
       ELSE LET key == Head(todo)
                path == GenPath(key)
                file == disk[path]
                r == ShouldUpdateFile(hashes, file, path)
                index == ExtractGenerated(path, The(file))
                artifact == IndexFileName(Stem(path))
            IN  /\ hashes' = r.hashes
                /\ idx' = IF r.result THEN [idx EXCEPT !.gen = DictSet(@, key, index)] ELSE idx
                /\ indexFiles' = IF r.result
                                 THEN [indexFiles EXCEPT ![artifact] = Some(IndexToDict(index))]
                                 ELSE indexFiles
                /\ run' = IF IsSome(file) THEN Called(path, file, r, r.result, artifact) ELSE run
                /\ todo' = Tail(todo)
                /\ pc' = IF Tail(todo) = << >> THEN "load" ELSE "gen"
                /\ UNCHANGED hist
    /\ UNCHANGED <<config, disk, hashesFile, runs, edits>>

\* the index loaded from an artifact when the run did not build one
LoadIfNone(index, artifact) ==
    IF ~IsSome(index) /\ IsJson(indexFiles[artifact])
    THEN Some(IndexFromDict(The(indexFiles[artifact])))
    ELSE index

RECURSIVE LoadGenerated(_, _)
\* the second loop over self.config["generated"].items(): indices not built in
\* this run are loaded from their artifacts
LoadGenerated(keys, gen) ==
    IF keys = << >> THEN gen
    ELSE LET key == Head(keys)
             artifact == IndexFileName(Stem(GenPath(key)))
         IN  LoadGenerated(Tail(keys),
                 IF ~DictHas(gen, key) /\ IsJson(indexFiles[artifact])
                 THEN DictSet(gen, key, IndexFromDict(The(indexFiles[artifact])))
                 ELSE gen)

\* json.load raises in the loading part of generate(): an index that the run
\* did not build has an artifact that is truncated
SqlLoadRaises ==
    \/ ~IsSome(idx.schema) /\ IsSome(indexFiles[SchemaIndexFile])
                           /\ ~IsJson(indexFiles[SchemaIndexFile])
    \/ ~IsSome(idx.query) /\ IsSome(indexFiles[QueryIndexFile])
                          /\ ~IsJson(indexFiles[QueryIndexFile])
    \/ \E i \in 1..Len(The(config.generated)) :
           LET key == The(config.generated)[i]
               artifact == IndexFileName(Stem(GenPath(key)))
           IN  ~DictHas(idx.gen, key) /\ IsSome(indexFiles[artifact])
                                     /\ ~IsJson(indexFiles[artifact])

\* the loading part of generate(), up to `if query_index and schema_index:`;
\* a truncated artifact ends the run with JSONDecodeError
SqlLoadIndices ==
    /\ config.engine = "sql"
    /\ pc = "load"
    /\ IF SqlLoadRaises
       THEN Interrupted(run, "aborted")
       ELSE LET schema == LoadIfNone(idx.schema, SchemaIndexFile)
                query == LoadIfNone(idx.query, QueryIndexFile)
                units == IF IsSome(query) /\ IsSome(schema) THEN The(query).ranges ELSE << >>
            IN  /\ idx' = [idx EXCEPT !.schema = schema, !.query = query,
                                      !.gen = LoadGenerated(The(config.generated), @)]
                /\ todo' = units
                /\ run' = [run EXCEPT !.units = DictKeys(units), !.lastCall = Nothing,
                                       !.top = IF IsSome(query) THEN DictKeys(The(query).ranges)
                                               ELSE {}]
                /\ pc' = IF units = << >> THEN "flush" ELSE "assemble"
                /\ UNCHANGED <<hashes, hist>>
    /\ UNCHANGED <<config, disk, hashesFile, indexFiles, runs, edits>>

\* generate_query_cache raises (and the loop of generate() catches it): the
\* query file or a needed schema file cannot be opened, or
\* config["generated"] lacks one of the two keys extract_generated_code reads
QueryCacheRaises(query_range) ==
    \/ ~IsSome(disk[QueryFile])
    \/ /\ ~IsSome(disk[SchemaFile])
       /\ TableDepsReadsSchema(ReadFileRange(The(disk[QueryFile]), query_range), The(idx.schema))
    \/ \E key \in {"query_sql_go", "models_sql_go"} :
           key \notin {The(config.generated)[i] : i \in 1..Len(The(config.generated))}

\* a unit loop without the try/except: the first failure ends the run
SqlAssembleAborts ==
    /\ config.engine = "sql"
    /\ pc = "assemble"
    /\ LET name == Head(todo).k
           range == Head(todo).v
       IN  IF QueryCacheRaises(range)
           THEN Interrupted([run EXCEPT !.failed = @ \cup {name}], "aborted")
           ELSE LET text == ReadFileRange(The(disk[QueryFile]), range)
                    schema_lines == IF IsSome(disk[SchemaFile]) THEN The(disk[SchemaFile]) ELSE << >>
                IN  /\ \E tables \in TableDependencies(text, The(idx.schema), schema_lines) :
                           run' = [run EXCEPT !.out = Store(@, name,
                                      QueryCache(name, text, range, tables,
                                          ExtractGeneratedCode(name, idx.gen, disk[QueryGoFile],
                                                               disk[ModelsGoFile])))]
                    /\ todo' = Tail(todo)
                    /\ pc' = IF Tail(todo) = << >> THEN "flush" ELSE "assemble"
                    /\ UNCHANGED <<hashes, idx, hist>>
    /\ UNCHANGED <<config, disk, hashesFile, indexFiles, runs, edits>>

\* one iteration of `for query_name, query_range in query_index.ranges.items()`
SqlAssemble ==
    /\ config.engine = "sql"
    /\ pc = "assemble"
    /\ LET name == Head(todo).k
           range == Head(todo).v
       IN  IF QueryCacheRaises(range)
           THEN run' = [run EXCEPT !.failed = @ \cup {name}]
           ELSE LET text == ReadFileRange(The(disk[QueryFile]), range)
                    schema_lines == IF IsSome(disk[SchemaFile]) THEN The(disk[SchemaFile]) ELSE << >>
                IN  \E tables \in TableDependencies(text, The(idx.schema), schema_lines) :
                        run' = [run EXCEPT !.out = Store(@, name,
                                   QueryCache(name, text, range, tables,
                                       ExtractGeneratedCode(name, idx.gen, disk[QueryGoFile],
                                                            disk[ModelsGoFile])))]
    /\ todo' = Tail(todo)
    /\ pc' = IF Tail(todo) = << >> THEN "flush" ELSE "assemble"
    /\ UNCHANGED <<config, disk, hashesFile, indexFiles, hashes, idx, runs, edits, hist>>

-----------------------------------------------------------------------------
(* ApiCacheGenerator.generate(), step by step *)

\* paths_index = self.index_paths() ; json.load of a truncated artifact, or reading a file
\* that is gone, raises and ends the run
ApiIndexPaths ==
    /\ config.engine = "api"
    /\ pc = "paths"
    /\ LET file == disk[SpecFile]
           r == ShouldReindex(hashes, PathsKey, file)
           called == [run EXCEPT !.staged = IF r.result THEN @ \cup {PathsKey} ELSE @]
       IN  IF ~r.result /\ IsJson(indexFiles[PathsIndexFile])
           THEN /\ hashes' = r.hashes
                /\ idx' = [idx EXCEPT !.paths = PathsFromDict(The(indexFiles[PathsIndexFile]))]
                /\ run' = Called(PathsKey, file, r, FALSE, PathsIndexFile)
                /\ pc' = "schemas"
                /\ UNCHANGED <<indexFiles, todo, hist>>
           ELSE IF (~r.result /\ IsSome(indexFiles[PathsIndexFile])) \/ ~IsSome(file)
           THEN /\ Interrupted(called, "aborted")
                /\ UNCHANGED indexFiles
           ELSE /\ hashes' = r.hashes
                /\ idx' = [idx EXCEPT !.paths = ExtractPaths(The(file))]
                /\ indexFiles' = [indexFiles EXCEPT ![PathsIndexFile] =
                                     Some(PathsToDict(ExtractPaths(The(file)), The(file)))]
                /\ run' = Called(PathsKey, file, r, TRUE, PathsIndexFile)
                /\ pc' = "schemas"
                /\ UNCHANGED <<todo, hist>>
    /\ UNCHANGED <<config, disk, hashesFile, runs, edits>>

\* an index_schemas that checks the fingerprint under the key of the path index
ApiIndexSchemasSharesKey ==
    /\ config.engine = "api"
    /\ pc = "schemas"
    /\ LET file == disk[SpecFile]
           r == ShouldReindex(hashes, PathsKey, file)
           called == [run EXCEPT !.staged = IF r.result THEN @ \cup {SchemasKey} ELSE @]
       IN  IF ~r.result /\ IsJson(indexFiles[SchemasIndexFile])
           THEN /\ hashes' = r.hashes
                /\ idx' = [idx EXCEPT !.schemas = SchemasFromDict(The(indexFiles[SchemasIndexFile]))]
                /\ run' = Called(SchemasKey, file, r, FALSE, SchemasIndexFile)
                /\ pc' = "boilerplate"
                /\ UNCHANGED <<indexFiles, todo, hist>>
           ELSE IF (~r.result /\ IsSome(indexFiles[SchemasIndexFile])) \/ ~IsSome(file)
           THEN /\ Interrupted(called, "aborted")
                /\ UNCHANGED indexFiles
           ELSE /\ hashes' = r.hashes
                /\ idx' = [idx EXCEPT !.schemas = ExtractSchemas(The(file))]
                /\ indexFiles' = [indexFiles EXCEPT ![SchemasIndexFile] =
                                     Some(SchemasToDict(ExtractSchemas(The(file)), The(file)))]
                /\ run' = Called(SchemasKey, file, r, TRUE, SchemasIndexFile)
                /\ pc' = "boilerplate"
                /\ UNCHANGED <<todo, hist>>
    /\ UNCHANGED <<config, disk, hashesFile, runs, edits>>

\* schemas_index = self.index_schemas() ; json.load of a truncated artifact, or reading a file
\* that is gone, raises and ends the run
ApiIndexSchemas ==
    /\ config.engine = "api"
    /\ pc = "schemas"
    /\ LET file == disk[SpecFile]
           r == ShouldReindex(hashes, SchemasKey, file)
           called == [run EXCEPT !.staged = IF r.result THEN @ \cup {SchemasKey} ELSE @]
       IN  IF ~r.result /\ IsJson(indexFiles[SchemasIndexFile])
           THEN /\ hashes' = r.hashes
                /\ idx' = [idx EXCEPT !.schemas = SchemasFromDict(The(indexFiles[SchemasIndexFile]))]
                /\ run' = Called(SchemasKey, file, r, FALSE, SchemasIndexFile)
                /\ pc' = "boilerplate"
                /\ UNCHANGED <<indexFiles, todo, hist>>
           ELSE IF (~r.result /\ IsSome(indexFiles[SchemasIndexFile])) \/ ~IsSome(file)
           THEN /\ Interrupted(called, "aborted")
                /\ UNCHANGED indexFiles
           ELSE /\ hashes' = r.hashes
                /\ idx' = [idx EXCEPT !.schemas = ExtractSchemas(The(file))]
                /\ indexFiles' = [indexFiles EXCEPT ![SchemasIndexFile] =
                                     Some(SchemasToDict(ExtractSchemas(The(file)), The(file)))]
                /\ run' = Called(SchemasKey, file, r, TRUE, SchemasIndexFile)
                /\ pc' = "boilerplate"
                /\ UNCHANGED <<todo, hist>>
    /\ UNCHANGED <<config, disk, hashesFile, runs, edits>>

\* the position after the three indices are built: the loop over
\* paths_index.items(), or the flush when there is no operation
AfterIndexing(paths) == IF paths = << >> THEN "flush" ELSE "assemble"

\* boilerplate_index = self.index_boilerplate() ; json.load of a truncated artifact, or reading a file
\* that is gone, raises and ends the run
ApiIndexBoilerplate ==
    /\ config.engine = "api"
    /\ pc = "boilerplate"
    /\ LET file == disk[BoilerplateFile]
           r == ShouldReindex(hashes, BoilerplateKey, file)
           called == [run EXCEPT !.staged = IF r.result THEN @ \cup {BoilerplateKey} ELSE @]
       IN  IF ~r.result /\ IsJson(indexFiles[BoilerplateIndexFile])
           THEN /\ hashes' = r.hashes
                /\ idx' = [idx EXCEPT !.boilerplate =
                              BoilerplateFromDict(The(indexFiles[BoilerplateIndexFile]))]
                /\ run' = [Called(BoilerplateKey, file, r, FALSE, BoilerplateIndexFile)
                              EXCEPT !.units = DictKeys(idx.paths)]
                /\ todo' = idx.paths
                /\ pc' = AfterIndexing(idx.paths)
                /\ UNCHANGED <<indexFiles, hist>>
           ELSE IF (~r.result /\ IsSome(indexFiles[BoilerplateIndexFile])) \/ ~IsSome(file)
           THEN /\ Interrupted(called, "aborted")
                /\ UNCHANGED indexFiles
           ELSE /\ hashes' = r.hashes
                /\ idx' = [idx EXCEPT !.boilerplate = ExtractBoilerplate(The(file))]
                /\ indexFiles' = [indexFiles EXCEPT ![BoilerplateIndexFile] =
                                     Some(BoilerplateToDict(ExtractBoilerplate(The(file)), The(file)))]
                /\ run' = [Called(BoilerplateKey, file, r, TRUE, BoilerplateIndexFile)
                              EXCEPT !.units = DictKeys(idx.paths)]
                /\ todo' = idx.paths
                /\ pc' = AfterIndexing(idx.paths)
                /\ UNCHANGED hist
    /\ UNCHANGED <<config, disk, hashesFile, runs, edits>>

\* a unit loop that takes the texts from the copy of the specification document
\* kept from the last completed run, when there is one
ApiAssembleFromLastRun ==
    /\ config.engine = "api"
    /\ pc = "assemble"
    /\ LET op == Head(todo).v
           kept == IF IsSome(run.seen[PathsKey]) THEN run.seen[PathsKey] ELSE disk[SpecFile]
       IN  run' = IF ~IsSome(disk[SpecFile])
                  THEN [run EXCEPT !.lastCall = Nothing, !.failed = @ \cup {op.operation_id}]
                  ELSE [run EXCEPT !.lastCall = Nothing,
                                   !.out = Store(@, op.operation_id,
                                       OperationCache(op, idx.schemas, idx.boilerplate,
                                                      The(kept)))]
    /\ todo' = Tail(todo)
    /\ pc' = IF Tail(todo) = << >> THEN "flush" ELSE "assemble"
    /\ UNCHANGED <<config, disk, hashesFile, indexFiles, hashes, idx, runs, edits, hist>>

\* one iteration of `for op_id, entry in paths_index.items()`: the bundle is
\* written unless generate_operation_cache raises (the specification document
\* cannot be opened), which the loop catches
ApiAssemble ==
    /\ config.engine = "api"
    /\ pc = "assemble"
    /\ LET op == Head(todo).v
       IN  run' = IF ~IsSome(disk[SpecFile])
                  THEN [run EXCEPT !.lastCall = Nothing, !.failed = @ \cup {op.operation_id}]
                  ELSE [run EXCEPT !.lastCall = Nothing,
                                   !.out = Store(@, op.operation_id,
                                       OperationCache(op, idx.schemas, idx.boilerplate,
                                                      The(disk[SpecFile])))]
    /\ todo' = Tail(todo)
    /\ pc' = IF Tail(todo) = << >> THEN "flush" ELSE "assemble"
    /\ UNCHANGED <<config, disk, hashesFile, indexFiles, hashes, idx, runs, edits, hist>>

-----------------------------------------------------------------------------
(* End of generate() *)

\* a generator that also writes the table after each bundle
SaveHashesEarly ==
    /\ pc \in {"assemble", "flush"}
    /\ hashesFile' = Some(hashes)
    /\ IF pc = "flush"
       THEN /\ run' = [run EXCEPT !.outcome = "completed", !.flushes = @ + 1,
                                  !.lastCall = Nothing]
            /\ pc' = "idle"
            /\ hashes' = EmptyMap
            /\ idx' = IdxNone
            /\ todo' = << >>
            /\ hist' = Completed
       ELSE /\ run' = [run EXCEPT !.flushes = @ + 1]
            /\ pc' = "flush"
            /\ UNCHANGED <<hashes, idx, todo, hist>>
    /\ UNCHANGED <<config, disk, indexFiles, runs, edits>>

\* self._save_hashes(): the in-memory table replaces the persisted one, and
\* generate() returns
SaveHashes ==
    /\ pc = "flush"
    /\ hashesFile' = Some(hashes)
    /\ run' = [run EXCEPT !.outcome = "completed", !.flushes = @ + 1, !.lastCall = Nothing]
    /\ pc' = "idle"
    /\ hashes' = EmptyMap
    /\ idx' = IdxNone
    /\ todo' = << >>
    /\ hist' = Completed
    /\ UNCHANGED <<config, disk, indexFiles, runs, edits>>

Next ==
    \/ StartRun
    \/ Crash
    \/ CrashInSaveIndex
    \/ CrashInSaveHashes
    \/ EditFile
    \/ RemoveArtifact
    \/ SqlIndexSchema
    \/ SqlIndexQuery
    \/ SqlIndexGenerated
    \/ SqlLoadIndices
    \/ SqlAssemble
    \/ ApiIndexPaths
    \/ ApiIndexSchemas
    \/ ApiIndexBoilerplate
    \/ ApiAssemble
    \/ SaveHashes

Spec == Init /\ [][Next]_vars

-----------------------------------------------------------------------------
(* Properties of the fingerprint store *)

\* the last fingerprint check of the running process
LastCall == The(run.lastCall)

\* C1: a fingerprint check of an existing file whose digest differs from the
\* stored one, or has no stored digest, returns true, and the in-memory table
\* afterwards is the table before with the key mapped to the current digest
C1_ChangedFileIsStaged ==
    (/\ IsSome(run.lastCall)
     /\ IsSome(LastCall.cur)
     /\ \/ LastCall.key \notin DOMAIN LastCall.before
        \/ LastCall.before[LastCall.key] # The(LastCall.cur))
    => /\ LastCall.result
       /\ hashes = Store(LastCall.before, LastCall.key, The(LastCall.cur))
       /\ hashes[LastCall.key] = The(LastCall.cur)

\* a check has just found a stored digest that differs from the current one
C1_Witness ==
    /\ IsSome(run.lastCall)
    /\ IsSome(LastCall.cur)
    /\ LastCall.key \in DOMAIN LastCall.before
    /\ LastCall.before[LastCall.key] # The(LastCall.cur)
    /\ LastCall.result
    /\ hashes[LastCall.key] = The(LastCall.cur)

\* C2: a fingerprint check of an existing file whose digest equals the stored
\* one returns false and leaves the whole in-memory table as it was
C2_UnchangedFileLeavesTable ==
    (/\ IsSome(run.lastCall)
     /\ IsSome(LastCall.cur)
     /\ LastCall.key \in DOMAIN LastCall.before
     /\ LastCall.before[LastCall.key] = The(LastCall.cur))
    => /\ ~LastCall.result
       /\ hashes = LastCall.before

\* a check has just found the stored digest equal to the current one
C2_Witness ==
    /\ IsSome(run.lastCall)
    /\ IsSome(LastCall.cur)
    /\ LastCall.key \in DOMAIN LastCall.before
    /\ LastCall.before[LastCall.key] = The(LastCall.cur)
    /\ ~LastCall.result
    /\ hashes = LastCall.before

\* C3: a fingerprint check of a path that does not exist returns false and
\* leaves the in-memory table as it was, a stored digest of the key included;
\* the process goes on (the check does not raise)
C3_MissingFileLeavesTable ==
    (/\ IsSome(run.lastCall)
     /\ ~IsSome(LastCall.cur))
    => /\ ~LastCall.result
       /\ hashes = LastCall.before
       /\ pc # "idle"

\* a check has just been made of a missing file that has a stored digest
C3_Witness ==
    /\ IsSome(run.lastCall)
    /\ ~IsSome(LastCall.cur)
    /\ LastCall.key \in DOMAIN LastCall.before
    /\ ~LastCall.result
    /\ LastCall.key \in DOMAIN hashes
    /\ hashes[LastCall.key] = LastCall.before[LastCall.key]

-----------------------------------------------------------------------------
(* Properties of a run *)

\* the artifact the extractor of a key produces from the content of its file
ExtractorOutput(key, lines) ==
    CASE key = SchemaFile -> IndexToDict(ExtractSchema(SchemaFile, lines))
      [] key = QueryFile -> IndexToDict(ExtractQuery(QueryFile, lines))
      [] key = PathsKey -> PathsToDict(ExtractPaths(lines), lines)
      [] key = SchemasKey -> SchemasToDict(ExtractSchemas(lines), lines)
      [] key = BoilerplateKey -> BoilerplateToDict(ExtractBoilerplate(lines), lines)
      [] OTHER -> IndexToDict(ExtractGenerated(key, lines))

\* C4: a run without the generated-source document (path not configured, or
\* file absent) does not abort, and when it completes it has written for every
\* top-level unit a bundle whose generated-entity list is empty
C4_MissingGeneratedSourceIsTolerated ==
    run.genMissing =>
        /\ run.outcome # "aborted"
        /\ run.outcome = "completed" =>
               \A u \in run.units : u \in DOMAIN run.out /\ run.out[u].generated = << >>

\* C5: a run that completes has written the fingerprint table exactly once, as
\* its last step; while the process runs (extractor calls, index saves, bundle
\* writes) the table has not been written
C5_TableWrittenOnceAtEnd ==
    /\ pc # "idle" => run.flushes = 0 /\ hashesFile = run.atStart
    /\ run.outcome = "completed" => run.flushes = 1 /\ pc = "idle"

\* a run that staged digests and wrote bundles has completed and changed the table
C5_Witness ==
    /\ run.outcome = "completed"
    /\ run.flushes = 1
    /\ run.staged # {}
    /\ run.out # EmptyMap
    /\ hashesFile # run.atStart

\* C6: after a run that was interrupted before the flush (killed, or ended by
\* an uncaught failure) the persisted table is the table the run started with
C6_InterruptedRunLeavesTable ==
    run.outcome \in {"crashed", "aborted"} => hashesFile = run.atStart

\* a run that had staged digests over an existing table was killed
C6_Witness ==
    /\ run.outcome = "crashed"
    /\ run.staged # {}
    /\ IsSome(run.atStart)
    /\ hashesFile = run.atStart

\* C7: a key staged by an interrupted run, its file not changed since, is
\* reported changed and extracted again by the next run, and when a run then
\* completes the persisted digest of the key and the index artifact of the key
\* are both those of the file's content
C7_InterruptedRunIsRedone ==
    /\ (/\ IsSome(run.lastCall)
        /\ LastCall.key \in hist.pending
        /\ IsSome(LastCall.cur))
       => LastCall.result /\ LastCall.scanned
    /\ (run.outcome = "completed" /\ ~hist.dirty) =>
           \A key \in hist.pending :
               LET file == disk[FileOfKey(key)]
               IN  /\ Unchanged(key, file)
                   /\ indexFiles[ArtifactOf(key)] = Some(ExtractorOutput(key, The(file)))

\* C8: between runs, when the persisted digest of a key is the digest of the
\* file's current content, the index artifact of the key (when present) is the
\* extractor's output on that content
C8_PersistedPairIsConsistent ==
    pc = "idle" =>
        \A key \in KeysOfEngine(config.engine) :
            (/\ Unchanged(key, disk[FileOfKey(key)])
             /\ IsSome(indexFiles[ArtifactOf(key)]))
            => indexFiles[ArtifactOf(key)]
                   = Some(ExtractorOutput(key, The(disk[FileOfKey(key)])))

\* C9: a run that completes right after a completed run, nothing changed in
\* between, writes the bundles the earlier run wrote
C9_RepeatedRunWritesSameBundles ==
    (run.outcome = "completed" /\ hist.cmp) => run.out = hist.prevOut

\* C10 as stated: no file whose digest equals the persisted digest is scanned
\* by its extractor, whether or not its index artifact exists
C10_UnchangedFileIsNeverScanned ==
    \A e \in run.extracted : ~e.unchanged

\* C10: a file whose digest equals the persisted digest is not scanned by its
\* extractor when its index artifact exists; the SQL engine does not scan it
\* either when the artifact is missing (the API engine then does)
C10_UnchangedFileWithIndexIsNotScanned ==
    /\ \A e \in run.extracted : e.unchanged => (config.engine = "api" /\ ~e.artifact)
    /\ (IsSome(run.lastCall) /\ LastCall.unchanged /\ LastCall.scanned)
           => (config.engine = "api" /\ ~LastCall.artifact)

\* a check found digest and artifact in place and the file was not scanned
C10_Witness ==
    /\ IsSome(run.lastCall)
    /\ LastCall.unchanged
    /\ LastCall.artifact
    /\ ~LastCall.result
    /\ ~LastCall.scanned
    /\ \A e \in run.extracted : e.key # LastCall.key

-----------------------------------------------------------------------------
(* Properties of change detection and of the index artifacts *)

\* the digest a fingerprint table holds for a key, if any
PersistedDigest(key, table) ==
    IF IsJson(table) /\ key \in DOMAIN The(table) THEN Some(The(table)[key]) ELSE Nothing

\* C11: when a file's content differs from the content it had in the last
\* completed run that read it (or no completed run has read it), the check of
\* the file reports a change, the extractor scans the file and its index
\* artifact is saved at once; when the run completes, the persisted digest of
\* the key is the digest of the content and differs from the digest persisted
\* before the run
C11_ChangedFileIsReindexed ==
    /\ (/\ IsSome(run.lastCall)
        /\ IsSome(LastCall.cur)
        /\ run.seen[LastCall.key] # disk[FileOfKey(LastCall.key)])
       => /\ LastCall.result
          /\ LastCall.scanned
          /\ indexFiles[ArtifactOf(LastCall.key)]
                 = Some(ExtractorOutput(LastCall.key, The(disk[FileOfKey(LastCall.key)])))
    /\ (run.outcome = "completed" /\ ~hist.dirty) =>
           \A key \in TrackedKeys :
               LET file == disk[FileOfKey(key)]
               IN  (IsSome(file) /\ run.seen[key] # file) =>
                       /\ \E e \in run.extracted : e.key = key
                       /\ PersistedDigest(key, hashesFile) = Some(FileHash(The(file)))
                       /\ PersistedDigest(key, hashesFile) # PersistedDigest(key, run.atStart)

\* a run has completed in which a file read by an earlier completed run had
\* another content, was scanned, and got a new persisted digest
C11_Witness ==
    /\ run.outcome = "completed"
    /\ ~hist.dirty
    /\ \E key \in TrackedKeys :
           /\ IsSome(run.seen[key])
           /\ IsSome(disk[FileOfKey(key)])
           /\ run.seen[key] # disk[FileOfKey(key)]
           /\ \E e \in run.extracted : e.key = key
           /\ IsSome(PersistedDigest(key, run.atStart))
           /\ PersistedDigest(key, hashesFile) # PersistedDigest(key, run.atStart)

\* the index the running process holds for a key, if it holds one
HeldIndex(key) ==
    CASE key = SchemaFile -> idx.schema
      [] key = QueryFile -> idx.query
      [] key = PathsKey -> Some(idx.paths)
      [] key = SchemasKey -> Some(idx.schemas)
      [] key = BoilerplateKey -> Some(idx.boilerplate)
      [] OTHER -> LET k == CHOOSE g \in {GenKeys[i] : i \in 1..Len(GenKeys)} : GenPath(g) = key
                  IN  IF DictHas(idx.gen, k) THEN Some(DictGet(idx.gen, k)) ELSE Nothing

\* the index an engine rebuilds from the artifact of a key
LoadArtifact(key, data) ==
    CASE key = PathsKey -> PathsFromDict(data)
      [] key = SchemasKey -> SchemasFromDict(data)
      [] key = BoilerplateKey -> BoilerplateFromDict(data)
      [] OTHER -> IndexFromDict(data)

\* the entities of an index as (name, kind, start, end); the indices of the
\* SQL engine, of the API paths and of the API schemas carry no kind
Entities(key, index) ==
    LET ranges == IF key \in KeysOfEngine("api") THEN index ELSE index.ranges
    IN  {[name |-> ranges[i].k,
          kind |-> IF key = BoilerplateKey THEN ranges[i].v.type ELSE None,
          start_line |-> IF key \in KeysOfEngine("api") THEN ranges[i].v.range.start_line
                         ELSE ranges[i].v.start_line,
          end_line |-> IF key \in KeysOfEngine("api") THEN ranges[i].v.range.end_line
                       ELSE ranges[i].v.end_line] : i \in 1..Len(ranges)}

\* C12: the index an extractor has just produced and saved is loaded back from
\* its artifact as an equal index: same entity names, same kinds, same start
\* and end lines (FileIndex of the SQL engine; path, schema and boilerplate
\* indices of the API engine)
C12_SavedIndexLoadsBackEqual ==
    (IsSome(run.lastCall) /\ LastCall.scanned) =>
        LET key == LastCall.key
            loaded == LoadArtifact(key, The(indexFiles[ArtifactOf(key)]))
        IN  /\ IsSome(HeldIndex(key))
            /\ Entities(key, loaded) = Entities(key, The(HeldIndex(key)))
            /\ loaded = The(HeldIndex(key))

\* an extractor has just produced and saved an index with two entities or more
C12_Witness ==
    /\ IsSome(run.lastCall)
    /\ LastCall.scanned
    /\ IsSome(HeldIndex(LastCall.key))
    /\ Cardinality(Entities(LastCall.key, The(HeldIndex(LastCall.key)))) >= 2
    /\ Entities(LastCall.key, LoadArtifact(LastCall.key, The(indexFiles[ArtifactOf(LastCall.key)])))
           = Entities(LastCall.key, The(HeldIndex(LastCall.key)))

\* C13: once a run has loaded its indices, the index it holds for a key whose
\* check returned false is the index the extractor produced for that key the
\* last time the key's file was scanned (so the units of a run that found the
\* top-level document unchanged are the units extracted from it earlier)
C13_LoadedIndexIsLastExtracted ==
    pc \in {"assemble", "flush"} =>
        \A key \in run.skipped :
            IsSome(HeldIndex(key)) =>
                /\ key \in DOMAIN run.produced
                /\ The(HeldIndex(key)) = run.produced[key]

\* C13 for the keys whose artifact name no other file shares
C13_ExceptSharedArtifacts ==
    pc \in {"assemble", "flush"} =>
        \A key \in run.skipped \ {QueryFile, QueryGoFile} :
            IsSome(HeldIndex(key)) =>
                /\ key \in DOMAIN run.produced
                /\ The(HeldIndex(key)) = run.produced[key]

\* C14: the files that have been scanned have pairwise distinct artifact names,
\* and the artifact of each of them was last written by the scan of that file
\* (no other file's index has been saved over it)
C14_OneArtifactPerFile ==
    /\ \A k1, k2 \in DOMAIN run.produced : k1 # k2 => ArtifactOf(k1) # ArtifactOf(k2)
    /\ \A key \in DOMAIN run.produced : run.writer[ArtifactOf(key)] = key

-----------------------------------------------------------------------------
(* Properties of the unit loop *)

\* C19: a unit whose bundle cannot be assembled or written does not abort the
\* run: when the loop is over every unit of the run has been attempted (it
\* failed itself, or its bundle was written), and the run that completes has
\* written the fingerprint table once
C19_FailedUnitDoesNotAbortRun ==
    /\ run.failed # {} => run.outcome # "aborted"
    /\ (pc = "flush" \/ run.outcome = "completed")
           => run.units = run.failed \cup DOMAIN run.out
    /\ run.outcome = "completed" => run.flushes = 1

\* a run has completed in which one unit failed and another was written
C19_Witness ==
    /\ run.outcome = "completed"
    /\ run.flushes = 1
    /\ run.failed # {}
    /\ DOMAIN run.out \ run.failed # {}

\* the names of the top-level index a run used: the query index (SQL engine),
\* the path index (API engine)
TopLevelUnits == IF config.engine = "sql" THEN run.top ELSE run.units

\* C20: a completed run has written one bundle for every unit of the top-level
\* index it used, whatever changed and whatever else is missing
C20_EveryUnitGetsBundle ==
    run.outcome = "completed" => \A u \in TopLevelUnits : u \in DOMAIN run.out

\* the bundles the unit loop has written so far
Bundles == {run.out[u] : u \in DOMAIN run.out}

\* the lines first..last of a file, as far as the file goes
LiveLines(lines, first, last) ==
    [i \in 1..(IF last > Len(lines) THEN Len(lines) - first + 1 ELSE last - first + 1)
        |-> lines[first + i - 1]]

\* the file a unit's text is read from, and the file its dependencies are read from
UnitFile == IF config.engine = "sql" THEN QueryFile ELSE SpecFile
DependencyFile == IF config.engine = "sql" THEN SchemaFile ELSE SpecFile

\* the text a bundle carries for a dependency
DependencyText(dep) == IF config.engine = "sql" THEN dep.table_sql ELSE dep.text

\* C21: in every bundle a running process has written, the unit's text and the
\* text of each dependency are the lines start..end (clamped to the length) of
\* the file as it is on disk during the run
C21_BundleTextIsLive ==
    pc # "idle" =>
        \A b \in Bundles :
            /\ IsSome(disk[UnitFile])
            /\ b.text = LiveLines(The(disk[UnitFile]), b.range.start_line, b.range.end_line)
            /\ \A i \in 1..Len(b.deps) :
                   /\ IsSome(disk[DependencyFile])
                   /\ DependencyText(b.deps[i]) =
                          LiveLines(The(disk[DependencyFile]), b.deps[i].range.start_line,
                                    b.deps[i].range.end_line)

\* a bundle with a dependency has been written in a run that found the unit's
\* file changed since the last completed run
C21_Witness ==
    /\ pc # "idle"
    /\ \E b \in Bundles : Len(b.deps) >= 1
    /\ IsSome(run.seen[UnitFile])
    /\ run.seen[UnitFile] # disk[UnitFile]

\* the keys whose files the run has scanned
ScannedKeys == {e.key : e \in run.extracted}

\* the specification document is not what it was at the last completed run
SpecDocumentChanged ==
    /\ IsSome(disk[SpecFile])
    /\ run.seen[PathsKey] # disk[SpecFile]
    /\ run.seen[SchemasKey] # disk[SpecFile]

\* C34: in the API engine, once a run is past index_schemas with a
\* specification document that changed since the last completed run, the run
\* has scanned the document for the path index and for the schema index, and
\* both indices in use are those of the document on disk
C34_BothSpecIndicesRebuilt ==
    (/\ config.engine = "api"
     /\ pc \in {"boilerplate", "assemble", "flush"}
     /\ SpecDocumentChanged)
        => /\ {PathsKey, SchemasKey} \subseteq ScannedKeys
           /\ idx.paths = ExtractPaths(The(disk[SpecFile]))
           /\ idx.schemas = ExtractSchemas(The(disk[SpecFile]))

\* a run is past index_schemas, an earlier run completed with another
\* specification document, and artifacts of both indices were there to load
C34_Witness ==
    /\ config.engine = "api"
    /\ pc = "boilerplate"
    /\ IsSome(run.seen[PathsKey])
    /\ SpecDocumentChanged
    /\ \E e \in run.extracted : e.key = SchemasKey /\ e.artifact
    /\ \E e \in run.extracted : e.key = PathsKey /\ e.artifact

-----------------------------------------------------------------------------
(* The extractors and resolvers on enumerated documents: one file of the
   configuration holds any document of at most MaxLines enumerated lines, and
   a generator constructed on an empty cache runs generate() step by step:
   the indexing steps stage the digests and write the artifacts, the unit
   loop assembles the bundles, and the flush writes the fingerprint table *)

RECURSIVE SeqsUpTo(_, _)
\* the sequences of at most n elements of S
SeqsUpTo(S, n) ==
    IF n = 0 THEN {<< >>}
    ELSE LET shorter == SeqsUpTo(S, n - 1)
         IN  shorter \cup {Append(q, x) : q \in {r \in shorter : Len(r) = n - 1}, x \in S}

SchemaLines ==
    {L(0, <<"CREATE", "TABLE", "orders", "(">>),
     L(0, <<"create", "table", "if", "not", "exists", "users", "(">>),
     L(0, <<"CREATE", "TYPE", "status", "AS">>),
     L(0, <<"CREATE", "FUNCTION", "total">>),
     L(2, <<"id", "int">>),
     L(0, <<");">>),
     L(0, <<";">>),
     L(0, << >>)}

QueryLines ==
    {L(0, <<"--", "name:", "GetOrder", ":one">>),
     L(0, <<"--", "name:", "ListUsers", ":many">>),
     L(0, <<"SELECT", "*", "FROM", "orders", "WHERE", "status", "=", "'NEW'">>),
     L(0, <<"SELECT", "*", "FROM", "users", "JOIN", "orders">>),
     L(0, <<"INSERT", "INTO", "users">>),
     L(0, <<"update", "orders", "set", "status">>),
     L(0, <<"SELECT", "*", "FROM", "select">>),
     L(0, <<"DELETE", "FROM", "items">>),
     L(0, <<"SELECT", "*", "FROM", "total">>)}

GoLines ==
    {L(0, <<"type", "Foo", "struct", "{", "A", "int", "}">>),
     L(0, <<"func", "Bar()", "{}">>),
     L(0, <<"func", "(q", "*Queries)", "GetOrder()", "{">>),
     L(0, <<"}">>),
     L(0, <<"//", "generated">>),
     L(0, <<"type", "Order", "struct", "{">>),
     L(0, <<"type", "ID", "int">>),
     L(0, <<"type", "Reader", "interface", "{">>),
     L(0, <<"const", "MaxItems", "=", "1">>),
     L(0, << >>)}

BoilerplateLines ==
    {L(0, <<"type", "Foo", "struct", "{", "A", "int", "}">>),
     L(0, <<"func", "Bar()", "{}">>),
     L(0, <<"func", "(siw", "*ServerInterfaceWrapper)", "ListTasks(w)", "{">>),
     L(0, <<"}">>),
     L(0, <<"//", "generated">>),
     L(0, <<"type", "ListTasksParams", "struct", "{">>),
     L(0, <<"type", "Task", "struct", "{">>),
     L(0, <<"type", "Reader", "interface", "{">>),
     L(0, <<"const", "MaxItems", "=", "1">>),
     L(0, << >>)}

PathLines ==
    {L(2, <<"/tasks:">>),
     L(2, <<"/users:">>),
     L(4, <<"get:">>),
     L(4, <<"post:">>),
     L(6, <<"operationId:", "ListTasks">>),
     L(6, <<"operationId:", "GetUser">>),
     L(6, <<"$ref:", "'#/components/schemas/Task'">>),
     L(0, <<"components:">>),
     L(0, << >>)}

SchemaSectionLines ==
    {L(4, <<"Task:">>),
     L(4, <<"User:">>),
     L(4, <<"post:">>),
     L(6, <<"type:", "object">>),
     L(0, <<"tags:">>),
     L(0, << >>)}

\* the documents a file is given: for the specification document, a paths
\* section of enumerated lines (alone, or followed by the components section
\* of TaskflowA), the head of TaskflowA followed by a schemas section of
\* enumerated lines, the paths section of TaskflowA and its components: line
\* followed by enumerated lines of a paths section, or a path key followed by
\* enumerated lines of a paths section
Documents(f) ==
    CASE f = SchemaFile -> SeqsUpTo(SchemaLines, MaxLines)
      [] f = QueryFile -> SeqsUpTo(QueryLines, MaxLines)
      [] f = SpecFile ->
            {<<L(0, <<"paths:">>)>> \o body \o tail :
                body \in SeqsUpTo(PathLines, MaxLines),
                tail \in {<< >>, SubSeq(TaskflowA, 6, 9)}}
            \cup {SubSeq(TaskflowA, 1, 7) \o body :
                    body \in SeqsUpTo(SchemaSectionLines, MaxLines)}
            \cup {SubSeq(TaskflowA, 1, 6) \o body :
                    body \in SeqsUpTo(PathLines, MaxLines)}
            \cup {SubSeq(TaskflowA, 1, 2) \o body :
                    body \in SeqsUpTo(PathLines, MaxLines)}
      [] f = BoilerplateFile -> SeqsUpTo(BoilerplateLines, MaxLines)
      [] OTHER -> SeqsUpTo(GoLines, MaxLines)

\* a schema document with a table and a function
SchemaSqlF ==
    << L(0, <<"CREATE", "TABLE", "orders", "(">>),
       L(0, <<");">>),
       L(0, <<"CREATE", "FUNCTION", "total">>) >>

\* the documents the other files hold next to an enumerated document of f:
\* the query documents are read against two schema documents
CompanionContents(f, g) ==
    IF f = QueryFile /\ g = SchemaFile THEN {SchemaSqlA, SchemaSqlF}
    ELSE {InitialContent(g)}

InitExtract ==
    /\ config \in {c \in Configs : c.generated = Some(GenKeys) \/ c.boilerplate_file}
    /\ \E f \in SourceFiles(config.engine) :
        \E others \in {o \in [SourceFiles(config.engine) ->
                                  UNION {CompanionContents(f, g) :
                                             g \in SourceFiles(config.engine)}] :
                            \A g \in SourceFiles(config.engine) :
                                o[g] \in CompanionContents(f, g)} :
            \E d \in Documents(f) :
                disk = [g \in SourceFiles(config.engine) |->
                            Some(IF g = f THEN d ELSE others[g])]
    /\ hashesFile = Nothing
    /\ indexFiles = [a \in IndexArtifacts(config.engine) |-> Nothing]
    /\ pc = IF config.engine = "sql" THEN "schema" ELSE "paths"
    /\ hashes = LoadHashes(Nothing)
    /\ idx = IdxNone
    /\ todo = << >>
    /\ runs = 1
    /\ edits = 0
    /\ hist = [pending |-> {}, prevOut |-> EmptyMap, cmp |-> FALSE, dirty |-> FALSE,
               seen |-> [key \in KeysOfEngine(config.engine) |-> Nothing]]
    /\ run = [RunNone EXCEPT !.outcome = "running", !.genMissing = GenUnavailable,
                             !.seen = hist.seen]

\* generate() of either engine, from its first indexing step to the flush
NextExtract ==
    \/ SqlIndexSchema
    \/ SqlIndexQuery
    \/ SqlIndexGenerated
    \/ SqlLoadIndices
    \/ SqlAssemble
    \/ ApiIndexPaths
    \/ ApiIndexSchemas
    \/ ApiIndexBoilerplate
    \/ ApiAssemble
    \/ SaveHashes

SpecExtract == InitExtract /\ [][NextExtract]_vars

\* the document of a key of the fingerprint table
DocOf(key) == The(disk[FileOfKey(key)])

\* the key whose file the step just taken has scanned: run.produced[key] is
\* the index the extractor returned in that step
JustScanned ==
    IF IsSome(run.lastCall) /\ LastCall.scanned THEN {LastCall.key} ELSE {}

\* C15: every entity of every index an extractor produces lies inside its
\* file: 1 <= start_line <= end_line <= total_lines, where total_lines is the
\* number of lines of the file (and the total the SQL extractors record)
C15_RangesWithinFile ==
    \A key \in JustScanned :
        /\ key \in KeysOfEngine("sql") => run.produced[key].total_lines = Len(DocOf(key))
        /\ \A e \in Entities(key, run.produced[key]) :
               /\ 1 <= e.start_line
               /\ e.start_line <= e.end_line
               /\ e.end_line <= Len(DocOf(key))

\* an enumerated document has been scanned and at least two entities were found
C15_Witness ==
    \E key \in JustScanned :
        /\ DocOf(key) # InitialContent(FileOfKey(key))
        /\ Cardinality(Entities(key, run.produced[key])) >= 2
        /\ \E e \in Entities(key, run.produced[key]) : e.start_line < e.end_line

\* name is the identifier right after a FROM, JOIN, INTO or UPDATE keyword
\* (in any case) of the text
FollowsClauseKeyword(text, name) ==
    LET toks == FlattenToks(text)
    IN  \E i \in 1..(Len(toks) - 1) :
            /\ Lower(toks[i]) \in {"from", "join", "into", "update"}
            /\ WordPrefix(toks[i + 1]) = name

\* SELECT * FROM orders WHERE status = 'NEW'
SelectNewOrders == L(0, <<"SELECT", "*", "FROM", "orders", "WHERE", "status", "=", "'NEW'">>)

\* the text of the bundle is its marker line followed by that query alone
IsSelectNewOrders(b) == Len(b.text) = 2 /\ b.text[2] = SelectNewOrders

\* C16: every table dependency of a query bundle directly follows FROM, JOIN,
\* INTO or UPDATE in the query text, is not a reserved word in any case, and is
\* a key of the schema index; for SELECT * FROM orders WHERE status = 'NEW'
\* with orders indexed the dependencies are exactly {orders} (read while the
\* run holds the schema index the dependencies were looked up in)
C16_TableDepsFollowClauseKeywords ==
    (config.engine = "sql" /\ IsSome(idx.schema)) =>
        \A b \in Bundles :
            /\ \A i \in 1..Len(b.deps) :
                   /\ FollowsClauseKeyword(b.text, b.deps[i].table_name)
                   /\ Upper(b.deps[i].table_name) \notin SqlKeywords
                   /\ DictHas(The(idx.schema).ranges, b.deps[i].table_name)
            /\ (IsSelectNewOrders(b) /\ DictHas(The(idx.schema).ranges, "orders"))
                   => /\ Len(b.deps) = 1
                      /\ b.deps[1].table_name = "orders"

\* the bundle of SELECT * FROM orders WHERE status = 'NEW' has been written
\* with orders in the schema index, and orders is its only dependency
C16_Witness ==
    /\ config.engine = "sql"
    /\ \E b \in Bundles :
           /\ IsSelectNewOrders(b)
           /\ Len(b.deps) = 1
           /\ DictHas(The(idx.schema).ranges, "orders")

\* the line is a path key or starts the components section
IsPathKeyOrComponents(line) == MatchPath(line) # None \/ StartsComponents(line)

\* the document is paths: / /tasks: / get: / ... operationId: ListTasks ... /
\* components: at line c, with no other path key, operation identifier or
\* components line before c
IsListTasksDocument(lines, c) ==
    /\ c \in 5..Len(lines)
    /\ IsPathsKey(lines[1])
    /\ MatchPath(lines[2]) = "/tasks"
    /\ MatchMethod(lines[3]) = "GET"
    /\ StartsComponents(lines[c])
    /\ \E j \in 4..(c - 1) :
           /\ IsOperationId(lines[j]) /\ OperationIdOf(lines[j]) = "ListTasks"
           /\ \A k \in 3..(c - 1) :
                  /\ ~IsPathKeyOrComponents(lines[k])
                  /\ k # j => ~IsOperationId(lines[k])

\* C17: the range of every indexed operation starts at the line of its path
\* key and ends at the line before the next path key or components: line, or at
\* the end of the file; the document paths: / /tasks: / get: / operationId:
\* ListTasks / components: yields exactly the entity ListTasks, from the
\* /tasks: line to the line before components:
C17_OperationRangeIsPathBlock ==
    PathsKey \in JustScanned =>
        LET lines == DocOf(PathsKey)
            paths == run.produced[PathsKey]
        IN  /\ \A i \in 1..Len(paths) :
                   LET e == paths[i].v
                       s == e.range.start_line
                       t == e.range.end_line
                   IN  /\ s \in 1..Len(lines)
                       /\ t \in s..Len(lines)
                       /\ MatchPath(lines[s]) = e.path
                       /\ \A k \in (s + 1)..t : ~IsPathKeyOrComponents(lines[k])
                       /\ t = Len(lines) \/ IsPathKeyOrComponents(lines[t + 1])
                       /\ \E j \in (s + 1)..t :
                              /\ IsOperationId(lines[j])
                              /\ OperationIdOf(lines[j]) = e.operation_id
            /\ \A c \in 1..Len(lines) :
                   IsListTasksDocument(lines, c)
                       => /\ Len(paths) = 1
                          /\ paths[1].k = "ListTasks"
                          /\ paths[1].v.range = FileRange(2, c - 1)

\* the ListTasks document has been indexed and its index holds one operation
C17_Witness ==
    /\ PathsKey \in JustScanned
    /\ \E c \in 1..Len(DocOf(PathsKey)) : IsListTasksDocument(DocOf(PathsKey), c)
    /\ Len(run.produced[PathsKey]) = 1

\* type Foo struct { A int } / func Bar() {}
FooBarDocument ==
    << L(0, <<"type", "Foo", "struct", "{", "A", "int", "}">>),
       L(0, <<"func", "Bar()", "{}">>) >>

\* C18: from the file type Foo struct { A int } / func Bar() {} a
\* generated-source extractor produces exactly two entities, Foo (a struct) and
\* Bar (a function), with ranges that do not overlap; the kinds are compared
\* where the index records kinds (boilerplate index of the API engine)
C18_FooAndBarAreIndexed ==
    \A key \in JustScanned \cap {QueryGoFile, ModelsGoFile, BoilerplateKey} :
        DocOf(key) = FooBarDocument =>
            LET entities == Entities(key, run.produced[key])
            IN  /\ Cardinality(entities) = 2
                /\ \E foo, bar \in entities :
                       /\ foo.name = "Foo"
                       /\ bar.name = "Bar"
                       /\ key = BoilerplateKey => foo.kind = "struct"
                       /\ key = BoilerplateKey => bar.kind \in {"func", "function"}
                       /\ foo.end_line < bar.start_line \/ bar.end_line < foo.start_line

\* the name a dependency record carries
DependencyName(dep) == IF config.engine = "sql" THEN dep.table_name ELSE dep.name

\* the name a token of a unit's text refers to: a table name stands for
\* itself, a schema is named by a pointer
ReferredName(t) == IF config.engine = "sql" THEN t ELSE RefOf(t)

\* the first position in a text at which a name is referred to (0: nowhere)
FirstOccurrence(name, lines) ==
    LET toks == FlattenToks(lines)
        at == {i \in 1..Len(toks) : ReferredName(toks[i]) = name}
    IN  IF at = {} THEN 0 ELSE CHOOSE i \in at : \A j \in at : i <= j

\* C22 as stated: the dependency list of a bundle holds each referenced name at
\* most once, in the order of first occurrence in the unit's text
C22_DepsInOrderOfFirstOccurrence ==
    \A b \in Bundles :
        \A i, j \in 1..Len(b.deps) :
            i < j =>
                /\ FirstOccurrence(DependencyName(b.deps[i]), b.text) > 0
                /\ FirstOccurrence(DependencyName(b.deps[i]), b.text)
                       < FirstOccurrence(DependencyName(b.deps[j]), b.text)

\* the names of the entities the generated-source indices of a run hold
IndexedEntityNames ==
    IF config.engine = "sql"
    THEN UNION {{idx.gen[i].v.ranges[j].k : j \in 1..Len(idx.gen[i].v.ranges)} :
                    i \in 1..Len(idx.gen)}
    ELSE {idx.boilerplate[i].k : i \in 1..Len(idx.boilerplate)}

\* the entity name equals the unit name, starts with it, contains it, or is
\* contained in it
NamesRelated(entity, unit) ==
    \/ entity = unit
    \/ StartsWith(entity, unit)
    \/ Contains(unit, entity)
    \/ Contains(entity, unit)

\* C23 as stated: a bundle carries a generated entity exactly when the entity's
\* name equals the unit's name, starts with it, contains it, or is contained in it
C23_GeneratedAttachedIffNamesRelated ==
    pc # "idle" =>
        \A b \in Bundles :
            \A n \in IndexedEntityNames :
                (\E i \in 1..Len(b.generated) : b.generated[i].name = n)
                    <=> NamesRelated(n, b.unit)

\* the keys of the generated-source documents
GeneratedKeys == {QueryGoFile, ModelsGoFile, BoilerplateKey}

\* the name a line opens for the extractor of key: the first opening pattern
\* of that extractor that matches the line
OpenedName(key, line) ==
    IF key = BoilerplateKey
    THEN (IF MatchBpFunc(line) # None THEN MatchBpFunc(line)
          ELSE IF MatchBpStruct(line) # None THEN MatchBpStruct(line)
          ELSE IF MatchBpConstVar(line) # None THEN MatchBpConstVar(line)
          ELSE MatchBpType(line))
    ELSE (IF MatchGoFunc(line) # None THEN MatchGoFunc(line)
          ELSE IF MatchGoStruct(line) # None THEN MatchGoStruct(line)
          ELSE IF MatchGoInterface(line) # None THEN MatchGoInterface(line)
          ELSE MatchGoType(line))

\* the lines of a document that open an entity
OpeningLines(key, lines) == {n \in 1..Len(lines) : OpenedName(key, lines[n]) # None}

\* C24 as stated: when the names opened in a generated-source document are
\* distinct, every opening line has its entity in the index, starting at that
\* line and ending before the next opening line
C24_NoOpenedEntityIsLost ==
    \A key \in JustScanned \cap GeneratedKeys :
        LET lines == DocOf(key)
            opening == OpeningLines(key, lines)
        IN  (\A m, n \in opening :
                 m # n => OpenedName(key, lines[m]) # OpenedName(key, lines[n]))
            => \A n \in opening :
                   \E e \in Entities(key, run.produced[key]) :
                       /\ e.name = OpenedName(key, lines[n])
                       /\ e.start_line = n
                       /\ \A m \in opening : m > n => e.end_line < m

\* the kind of declaration a line of Go source begins, if any
DeclaredKind(line) ==
    LET t == line.toks
    IN  IF line.ind # 0 \/ Len(t) < 2 THEN None
        ELSE IF t[1] = "func" THEN "function"
        ELSE IF t[1] \in {"const", "var"} THEN "const/var"
        ELSE IF t[1] = "type" /\ Len(t) >= 3
        THEN (IF TokHasStruct(t[3]) THEN "struct"
              ELSE IF TokHasInterface(t[3]) THEN "interface"
              ELSE "type")
        ELSE None

\* the name the declaration gives: after the receiver for a method
DeclaredName(line) ==
    LET t == line.toks
    IN  IF t[1] = "func" /\ WordPrefix(t[2]) = "" /\ Len(t) >= 4 THEN WordPrefix(t[4])
        ELSE WordPrefix(t[2])

\* the kinds under which the boilerplate index records a declaration of kind k
RecordedKinds(k) ==
    CASE k = "function" -> {"func", "function"}
      [] k = "const/var" -> {"const", "var"}
      [] OTHER -> {k}

\* C25 as stated: a generated-source document whose only declaration is one
\* top-level line of one of the five kinds (function, struct, interface,
\* const/var, other type) yields an entity of that name starting at that line,
\* of the matching kind where the index records kinds
C25_EachKindOfLineOpensAnEntity ==
    \A key \in JustScanned \cap GeneratedKeys :
        LET lines == DocOf(key)
            declared == {n \in 1..Len(lines) : DeclaredKind(lines[n]) # None}
        IN  \A n \in declared :
                declared = {n} =>
                    \E e \in Entities(key, run.produced[key]) :
                        /\ e.name = DeclaredName(lines[n])
                        /\ e.start_line = n
                        /\ key = BoilerplateKey
                               => e.kind \in RecordedKinds(DeclaredKind(lines[n]))

\* the last line of a document that opens an entity (0: none)
LastOpeningLine(key, lines) ==
    LET opening == OpeningLines(key, lines)
    IN  IF opening = {} THEN 0 ELSE CHOOSE n \in opening : \A m \in opening : m <= n

\* nothing but blank lines and comments follows line n: the entity opened at
\* line n is open when the file ends
OpenAtEndOfFile(key, lines) ==
    /\ LastOpeningLine(key, lines) > 0
    /\ \A m \in (LastOpeningLine(key, lines) + 1)..Len(lines) :
           ~NonBlank(lines[m]) \/ IsComment(lines[m])

\* C26: the entity that is open after the last line of a generated-source
\* document is in the index, from its opening line to the last line of the file
C26_OpenEntityEndsAtLastLine ==
    \A key \in JustScanned \cap GeneratedKeys :
        LET lines == DocOf(key)
            n == LastOpeningLine(key, lines)
        IN  OpenAtEndOfFile(key, lines) =>
                \E e \in Entities(key, run.produced[key]) :
                    /\ e.name = OpenedName(key, lines[n])
                    /\ e.start_line = n
                    /\ e.end_line = Len(lines)

\* a scanned document of three lines: an opening line after another entity,
\* followed by a comment
C26_Witness ==
    \E key \in JustScanned \cap GeneratedKeys :
        /\ Len(DocOf(key)) = 3
        /\ OpenAtEndOfFile(key, DocOf(key))
        /\ LastOpeningLine(key, DocOf(key)) = 2
        /\ Cardinality(OpeningLines(key, DocOf(key))) = 2
        /\ \E e \in Entities(key, run.produced[key]) : e.start_line = 2 /\ e.end_line = 3

\* the CREATE TABLE, CREATE TYPE and CREATE FUNCTION lines of a schema document
CreateLines(lines) == {n \in 1..Len(lines) : MatchCreate(lines[n]) # None}

\* the lines after line n that end the entity opened at line n: a line that
\* starts with a semicolon, or the next CREATE line
EndingLines(lines, n) ==
    {m \in (n + 1)..Len(lines) :
        MatchCreate(lines[m]) # None \/ StartsWithSemicolon(lines[m])}

\* C27: in the index of a schema document with distinct names the ranges of
\* two entities never overlap (one entity is open at a time); the entity of a
\* CREATE line starts at that line and ends at the first later line that
\* starts with a semicolon, or at the line before the next CREATE line when
\* that comes first
C27_SchemaEntityEndsAtSemicolonOrNextCreate ==
    SchemaFile \in JustScanned =>
        LET lines == DocOf(SchemaFile)
            entities == Entities(SchemaFile, run.produced[SchemaFile])
        IN  (\A m, n \in CreateLines(lines) :
                 m # n => MatchCreate(lines[m]) # MatchCreate(lines[n]))
            => /\ \A a, b \in entities :
                      a # b => (a.end_line < b.start_line \/ b.end_line < a.start_line)
               /\ \A n \in CreateLines(lines) :
                      \E e \in entities :
                          /\ e.name = MatchCreate(lines[n])
                          /\ e.start_line = n
                          /\ EndingLines(lines, n) # {} =>
                                 LET m == CHOOSE k \in EndingLines(lines, n) :
                                              \A j \in EndingLines(lines, n) : k <= j
                                 IN  e.end_line =
                                         IF StartsWithSemicolon(lines[m]) THEN m ELSE m - 1

\* a scanned schema document in which one entity is ended by the next CREATE
\* line and that next entity by a line starting with a semicolon
C27_Witness ==
    /\ SchemaFile \in JustScanned
    /\ \E a, b \in Entities(SchemaFile, run.produced[SchemaFile]) :
           /\ a.end_line + 1 = b.start_line
           /\ b.end_line > b.start_line
           /\ StartsWithSemicolon(DocOf(SchemaFile)[b.end_line])

\* the `-- name:` marker lines of a query document
MarkerLines(lines) == {n \in 1..Len(lines) : MatchQueryMarker(lines[n]) # None}

\* C28: in the index of a query document with distinct names every marker line
\* has its query, from the marker to the line before the next marker, or to
\* the last line of the file; the ranges are pairwise disjoint and cover every
\* line from the first marker to the end of the file
C28_QueryRangesPartitionTheFile ==
    QueryFile \in JustScanned =>
        LET lines == DocOf(QueryFile)
            markers == MarkerLines(lines)
            entities == Entities(QueryFile, run.produced[QueryFile])
        IN  (\A m, n \in markers :
                 m # n => MatchQueryMarker(lines[m]) # MatchQueryMarker(lines[n]))
            => /\ \A n \in markers :
                      \E e \in entities :
                          /\ e.name = MatchQueryMarker(lines[n])
                          /\ e.start_line = n
                          /\ e.end_line = IF \E m \in markers : m > n
                                          THEN (CHOOSE m \in markers :
                                                    /\ m > n
                                                    /\ \A k \in markers : k > n => m <= k) - 1
                                          ELSE Len(lines)
               /\ \A a, b \in entities :
                      a # b => (a.end_line < b.start_line \/ b.end_line < a.start_line)
               /\ \A k \in 1..Len(lines) :
                      (\E n \in markers : n <= k)
                          => \E e \in entities : e.start_line <= k /\ k <= e.end_line

\* a scanned query document of MaxLines lines with two queries, the first of
\* more than one line
C28_Witness ==
    /\ QueryFile \in JustScanned
    /\ Len(DocOf(QueryFile)) = MaxLines
    /\ \E a, b \in Entities(QueryFile, run.produced[QueryFile]) :
           /\ a.start_line < a.end_line
           /\ a.end_line + 1 = b.start_line
           /\ b.end_line = Len(DocOf(QueryFile))

\* the lines after the first `schemas:` line that are indented by four spaces
\* and consist of a name and a colon
SchemaHeaderLines(lines) ==
    {n \in 1..Len(lines) :
        /\ \E k \in 1..(n - 1) : IsSchemasKey(lines[k])
        /\ MatchSchemaHeader(lines[n]) # None}

\* the lines after line n at which the schema begun at line n is over: the
\* next header line, or a line that is not blank and indented by less than four
SchemaEndingLines(lines, n) ==
    {m \in (n + 1)..Len(lines) :
        \/ MatchSchemaHeader(lines[m]) # None
        \/ (NonBlank(lines[m]) /\ lines[m].ind < 4)}

\* C29: in the schema index of a specification document with distinct schema
\* names, the entities are those of the header lines after `schemas:`; each
\* starts at its header line and ends at the line before the next header line
\* or before the first non-blank line indented by less than four spaces,
\* whichever comes first, and at the last line of the file when there is none
C29_SchemaRangeEndsBeforeNextHeaderOrOutdent ==
    SchemasKey \in JustScanned =>
        LET lines == DocOf(SchemasKey)
            headers == SchemaHeaderLines(lines)
            entities == Entities(SchemasKey, run.produced[SchemasKey])
        IN  (\A m, n \in headers :
                 m # n => MatchSchemaHeader(lines[m]) # MatchSchemaHeader(lines[n]))
            => /\ \A e \in entities : e.start_line \in headers
               /\ \A n \in headers :
                      \E e \in entities :
                          /\ e.name = MatchSchemaHeader(lines[n])
                          /\ e.start_line = n
                          /\ e.end_line =
                                 IF SchemaEndingLines(lines, n) = {} THEN Len(lines)
                                 ELSE (CHOOSE m \in SchemaEndingLines(lines, n) :
                                           \A k \in SchemaEndingLines(lines, n) : m <= k) - 1

\* a scanned specification document with a schema whose range ends with a
\* blank line, before the next schema or before a line indented by less than
\* four spaces
C29_Witness ==
    /\ SchemasKey \in JustScanned
    /\ \E a \in Entities(SchemasKey, run.produced[SchemasKey]) :
           /\ a.start_line < a.end_line
           /\ ~NonBlank(DocOf(SchemasKey)[a.end_line])
           /\ a.end_line < Len(DocOf(SchemasKey))
           /\ a.end_line + 1 \in SchemaEndingLines(DocOf(SchemasKey), a.start_line)

\* the first `paths:` line of a specification document (0: none)
PathsLine(lines) ==
    IF \E n \in 1..Len(lines) : IsPathsKey(lines[n])
    THEN CHOOSE n \in 1..Len(lines) :
             IsPathsKey(lines[n]) /\ \A k \in 1..(n - 1) : ~IsPathsKey(lines[k])
    ELSE 0

\* the first `components:` line after the `paths:` line; the line after the
\* last one when there is none
ComponentsLine(lines) ==
    LET after == {n \in (PathsLine(lines) + 1)..Len(lines) :
                      PathsLine(lines) > 0 /\ StartsComponents(lines[n])}
    IN  IF after = {} THEN Len(lines) + 1 ELSE CHOOSE n \in after : \A k \in after : n <= k

\* line j gives an operationId in the block of the method key at line m: no
\* path key and no other method key lies between the two
InMethodBlock(lines, m, j) ==
    /\ m < j
    /\ MatchMethod(lines[m]) # None
    /\ \E k \in 1..(m - 1) : MatchPath(lines[k]) # None /\ k > PathsLine(lines)
    /\ IsOperationId(lines[j])
    /\ \A k \in (m + 1)..(j - 1) : MatchPath(lines[k]) = None /\ MatchMethod(lines[k]) = None

\* C30: no operation of the path index reaches the first components: line
\* after paths: or a later line, and every operation of the index has its
\* operationId line in the block of a method key, both before that line, and
\* carries the method of that key: keys after the line and method blocks
\* without an operationId give no entity
C30_NothingIndexedFromComponentsOn ==
    PathsKey \in JustScanned =>
        LET lines == DocOf(PathsKey)
            index == run.produced[PathsKey]
            c == ComponentsLine(lines)
        IN  \A i \in 1..Len(index) :
                /\ index[i].v.range.start_line > PathsLine(lines)
                /\ index[i].v.range.end_line < c
                /\ \E m, j \in 1..(c - 1) :
                       /\ InMethodBlock(lines, m, j)
                       /\ OperationIdOf(lines[j]) = index[i].k
                       /\ MatchMethod(lines[m]) = index[i].v.method
                       /\ index[i].v.range.start_line < m
                       /\ j <= index[i].v.range.end_line

\* a scanned specification document with an indexed operation before the
\* components: line and a method key with an operationId after it
C30_Witness ==
    /\ PathsKey \in JustScanned
    /\ run.produced[PathsKey] # << >>
    /\ LET lines == DocOf(PathsKey)
       IN  \E m, j \in (ComponentsLine(lines) + 1)..Len(lines) : InMethodBlock(lines, m, j)

\* the path key that encloses line j: the last path key before it (0: none)
EnclosingPathLine(lines, j) ==
    LET before == {k \in (PathsLine(lines) + 1)..(j - 1) : MatchPath(lines[k]) # None}
    IN  IF before = {} THEN 0 ELSE CHOOSE k \in before : \A h \in before : h <= k

\* C31: every operation of the path index has an operationId line whose
\* nearest preceding method key gives the operation's method and whose
\* enclosing path key gives its path; a method key without an operationId of
\* its own, scanning forward into the next method block, leaves no operation
\* with its method
C31_OperationHasNearestMethodAndPath ==
    PathsKey \in JustScanned =>
        LET lines == DocOf(PathsKey)
            index == run.produced[PathsKey]
        IN  \A i \in 1..Len(index) :
                \E m, j \in 1..Len(lines) :
                    /\ InMethodBlock(lines, m, j)
                    /\ OperationIdOf(lines[j]) = index[i].k
                    /\ index[i].v.method = MatchMethod(lines[m])
                    /\ EnclosingPathLine(lines, j) > 0
                    /\ index[i].v.path = MatchPath(lines[EnclosingPathLine(lines, j)])
                    /\ index[i].v.range.start_line = EnclosingPathLine(lines, j)

\* a scanned specification document in which a method key without an
\* operationId is followed, under the same path key, by another method key
\* with one, and the operation is in the index
C31_Witness ==
    /\ PathsKey \in JustScanned
    /\ LET lines == DocOf(PathsKey)
           index == run.produced[PathsKey]
       IN  \E h, m, j \in 1..Len(lines) :
               /\ h < m
               /\ MatchMethod(lines[h]) # None
               /\ MatchMethod(lines[h]) # MatchMethod(lines[m])
               /\ InMethodBlock(lines, m, j)
               /\ EnclosingPathLine(lines, h) = EnclosingPathLine(lines, j)
               /\ EnclosingPathLine(lines, h) > 0
               /\ \A k \in (h + 1)..(m - 1) : ~IsOperationId(lines[k])
               /\ \E i \in 1..Len(index) :
                      /\ index[i].k = OperationIdOf(lines[j])
                      /\ index[i].v.method = MatchMethod(lines[m])

\* the names the schema document on disk creates with CREATE TABLE
CreatedTables ==
    LET lines == The(disk[SchemaFile])
    IN  {MatchCreateTable(lines[n]) : n \in 1..Len(lines)} \ {None}

\* C32 as stated: every table dependency of a query bundle names an entity
\* the schema document creates with CREATE TABLE
C32_TableDependencyIsATable ==
    config.engine = "sql" =>
        \A b \in Bundles :
            \A i \in 1..Len(b.deps) : b.deps[i].table_name \in CreatedTables

-----------------------------------------------------------------------------
(* The indexing steps of a run taken in any order *)

\* the order in which generate() takes the indexing steps
CodeOrder ==
    IF config.engine = "sql"
    THEN <<SchemaFile, QueryFile, QueryGoFile, ModelsGoFile>>
    ELSE <<PathsKey, SchemasKey, BoilerplateKey>>

\* an empty cache, every source file with one of its contents, and an order
\* of the indexing steps
InitOrder ==
    /\ config \in {c \in Configs : c.generated = Some(GenKeys) \/ c.boilerplate_file}
    /\ disk \in [SourceFiles(config.engine) ->
                    {Some(AllContents[n]) : n \in 1..Len(AllContents)}]
    /\ \A f \in SourceFiles(config.engine) : The(disk[f]) \in ContentsOf(f)
    /\ todo \in Permutations1(TrackedKeys)
    /\ hashesFile = Nothing
    /\ indexFiles = [a \in IndexArtifacts(config.engine) |-> Nothing]
    /\ pc = "order"
    /\ hashes = EmptyMap
    /\ idx = IdxNone
    /\ runs = 0
    /\ edits = 0
    /\ run = [RunNone EXCEPT !.outcome = "running"]
    /\ hist = [pending |-> {}, prevOut |-> EmptyMap, cmp |-> FALSE, dirty |-> FALSE,
               seen |-> [key \in KeysOfEngine(config.engine) |-> Nothing]]

\* the local of generate() that holds the index of a key after its indexing
\* step: the index built by the scan, and without a scan nothing (SQL engine)
\* or the index loaded from the artifact (API engine)
IdxAfterStep(key, file, scan) ==
    CASE key = SchemaFile ->
            [idx EXCEPT !.schema = IF scan THEN Some(ExtractSchema(key, The(file)))
                                   ELSE Nothing]
      [] key = QueryFile ->
            [idx EXCEPT !.query = IF scan THEN Some(ExtractQuery(key, The(file)))
                                  ELSE Nothing]
      [] key = PathsKey ->
            [idx EXCEPT !.paths = IF scan THEN ExtractPaths(The(file))
                                  ELSE PathsFromDict(The(indexFiles[PathsIndexFile]))]
      [] key = SchemasKey ->
            [idx EXCEPT !.schemas = IF scan THEN ExtractSchemas(The(file))
                                    ELSE SchemasFromDict(The(indexFiles[SchemasIndexFile]))]
      [] key = BoilerplateKey ->
            [idx EXCEPT !.boilerplate =
                IF scan THEN ExtractBoilerplate(The(file))
                ELSE BoilerplateFromDict(The(indexFiles[BoilerplateIndexFile]))]
      [] OTHER ->
            IF scan
            THEN [idx EXCEPT !.gen =
                     DictSet(@, CHOOSE k \in {GenKeys[n] : n \in 1..Len(GenKeys)} :
                                    GenPath(k) = key,
                             ExtractGenerated(key, The(file)))]
            ELSE idx

\* the indexing step of one key: the fingerprint check, and when it reports a
\* change (API engine: or when there is no artifact to load) the scan of the
\* file, the write of the artifact and the binding of the index
IndexInAnyOrder ==
    /\ pc = "order"
    /\ todo # << >>
    /\ LET key == Head(todo)
           file == disk[FileOfKey(key)]
           r == IF config.engine = "sql" THEN ShouldUpdateFile(hashes, file, key)
                ELSE ShouldReindex(hashes, key, file)
           scan == IF config.engine = "sql" THEN r.result
                   ELSE r.result \/ ~IsSome(indexFiles[ArtifactOf(key)])
       IN  /\ hashes' = r.hashes
           /\ indexFiles' = IF scan
                            THEN [indexFiles EXCEPT ![ArtifactOf(key)] =
                                     Some(ExtractorOutput(key, The(file)))]
                            ELSE indexFiles
           /\ idx' = IdxAfterStep(key, file, scan)
           /\ run' = Called(key, file, r, scan, ArtifactOf(key))
    /\ todo' = Tail(todo)
    /\ UNCHANGED <<config, disk, hashesFile, pc, runs, edits, hist>>

NextOrder == IndexInAnyOrder

SpecOrder == InitOrder /\ [][NextOrder]_vars

RECURSIVE ArtifactsInOrder(_, _)
\* the artifacts after the steps of the keys of `order`, starting from `files`
ArtifactsInOrder(order, files) ==
    IF order = << >> THEN files
    ELSE ArtifactsInOrder(Tail(order),
             [files EXCEPT ![ArtifactOf(Head(order))] =
                 Some(ExtractorOutput(Head(order), The(disk[FileOfKey(Head(order))])))])

\* C33 as stated: when the indexing steps of a run on an empty cache have all
\* been taken, in whatever order, the persisted artifacts are those the order
\* of generate() leaves, and every index built is that of the key's own file
C33_ArtifactsIndependentOfOrder ==
    (pc = "order" /\ todo = << >>) =>
        /\ indexFiles = ArtifactsInOrder(CodeOrder,
                            [a \in IndexArtifacts(config.engine) |-> Nothing])
        /\ \A key \in TrackedKeys :
               /\ key \in DOMAIN run.produced
               /\ run.produced[key] = ExtractorIndex(key, The(disk[FileOfKey(key)]))


\* the extractors whose indices give each entity a range of lines of its own
RangedKeys == {SchemaFile, SchemasKey} \cup GeneratedKeys

\* two entities have a line in common
ShareALine(a, b) == a.start_line <= b.end_line /\ b.start_line <= a.end_line

\* C35: in every index produced by index_schema_file, index_schemas,
\* index_generated_file and index_boilerplate, two entities with different
\* names have no line in common
C35_RangesOfDifferentEntitiesDisjoint ==
    \A key \in RangedKeys \cap JustScanned :
        \A a, b \in Entities(key, run.produced[key]) :
            a.name # b.name => ~ShareALine(a, b)

\* an index of generated source has two entities on consecutive lines, the
\* second opened by the line right after the first one's last line
C35_Witness ==
    \E key \in GeneratedKeys \cap JustScanned :
        \E a, b \in Entities(key, run.produced[key]) :
            /\ a.name # b.name
            /\ a.end_line + 1 = b.start_line
            /\ OpenedName(key, DocOf(key)[b.start_line]) = b.name


-----------------------------------------------------------------------------
(* The loops of the extractors, one iteration at a time *)

\* the while loop of index_paths is left: i >= total_lines, or the break at
\* the components: line
PathsLoopEnds(lines, i, st) ==
    IF i > Len(lines) THEN TRUE ELSE st.started /\ StartsComponents(lines[i])

\* one iteration of the while loop of index_paths at line i: the position and
\* the local variables after it (the loops over j and k leave i as it is)
PathsIteration(lines, i, st) ==
    IF ~st.started
    THEN [i |-> i + 1, st |-> [st EXCEPT !.started = IsPathsKey(lines[i])]]
    ELSE IF MatchPath(lines[i]) # None
    THEN [i |-> i + 1,
          st |-> [st EXCEPT !.path = MatchPath(lines[i]), !.path_line = i, !.method = None]]
    ELSE IF MatchMethod(lines[i]) # None /\ st.path # None
    THEN LET st1 == [st EXCEPT !.method = MatchMethod(lines[i])]
         IN  [i |-> i + 1, st |-> [st1 EXCEPT !.paths = MethodBlockScan(lines, i + 1, st1)]]
    ELSE [i |-> i + 1, st |-> st]

\* an iteration whose scan of the schema body starts at the header itself
SchemasIterationRescansHeader(lines, i, st) ==
    IF ~st.started
    THEN [i |-> i + 1, st |-> [st EXCEPT !.started = IsSchemasKey(lines[i])]]
    ELSE IF MatchSchemaHeader(lines[i]) # None
    THEN LET j == SchemaBodyEnd(lines, i)
             name == MatchSchemaHeader(lines[i])
         IN  [i |-> j,
              st |-> [st EXCEPT !.schemas = DictSet(st.schemas, name,
                                                    SchemaEntry(name, FileRange(i, Max(i, j - 1))))]]
    ELSE [i |-> i + 1, st |-> st]

\* one iteration of the while loop of index_schemas at line i: after a schema
\* header the loop continues at j, where the scan of the body stopped
SchemasIteration(lines, i, st) ==
    IF ~st.started
    THEN [i |-> i + 1, st |-> [st EXCEPT !.started = IsSchemasKey(lines[i])]]
    ELSE IF MatchSchemaHeader(lines[i]) # None
    THEN LET j == SchemaBodyEnd(lines, i + 1)
             name == MatchSchemaHeader(lines[i])
         IN  [i |-> j,
              st |-> [st EXCEPT !.schemas = DictSet(st.schemas, name,
                                                    SchemaEntry(name, FileRange(i, j - 1)))]]
    ELSE [i |-> i + 1, st |-> st]

\* the local variables of an extractor's loop before its first iteration
LoopInit(key) ==
    CASE key = PathsKey -> PathsScanInit
      [] key = SchemasKey -> [started |-> FALSE, schemas |-> EmptyDict]
      [] key = BoilerplateKey -> BpScanInit
      [] key = SchemaFile -> SchemaScanInit
      [] key = QueryFile -> QueryScanInit
      [] OTHER -> GenScanInit

\* the local variables the whole loop of an extractor ends with
LoopResult(key, lines) ==
    CASE key = PathsKey -> PathsScan(lines, 1, PathsScanInit)
      [] key = SchemasKey -> ApiSchemasScan(lines, 1, [started |-> FALSE, schemas |-> EmptyDict])
      [] key = BoilerplateKey -> BpScan(lines, 1, BpScanInit)
      [] key = SchemaFile -> SchemaScan(lines, 1, SchemaScanInit)
      [] key = QueryFile -> QueryScan(lines, 1, QueryScanInit)
      [] OTHER -> GenScan(lines, 1, GenScanInit)

\* the documents the loops are run on: for the specification document, a
\* paths: line and a path key followed by enumerated lines of a paths section,
\* or the components: and schemas: lines followed by enumerated lines of a
\* schemas section
ScanDocuments(key) ==
    CASE key = PathsKey ->
            {SubSeq(TaskflowA, 1, 2) \o body : body \in SeqsUpTo(PathLines, MaxLines)}
      [] key = SchemasKey ->
            {SubSeq(TaskflowA, 6, 7) \o body : body \in SeqsUpTo(SchemaSectionLines, MaxLines)}
      [] OTHER -> Documents(key)

\* the extractor of one key is about to run its loop on a document; idx holds
\* the loop's position (the number of the line read next), the position at
\* the start of the last iteration (0: none) and the local variables
InitScan ==
    /\ config \in {c \in Configs : c.generated = Some(GenKeys) \/ c.boilerplate_file}
    /\ \E key \in TrackedKeys :
           /\ todo = <<key>>
           /\ idx = [i |-> 1, prev |-> 0, st |-> LoopInit(key)]
           /\ \E d \in ScanDocuments(key) :
                  disk = [g \in SourceFiles(config.engine) |->
                             Some(IF g = FileOfKey(key) THEN d ELSE InitialContent(g))]
    /\ hashesFile = Nothing
    /\ indexFiles = [a \in IndexArtifacts(config.engine) |-> Nothing]
    /\ pc = "scan"
    /\ hashes = EmptyMap
    /\ runs = 0
    /\ edits = 0
    /\ run = [RunNone EXCEPT !.outcome = "running"]
    /\ hist = [pending |-> {}, prevOut |-> EmptyMap, cmp |-> FALSE, dirty |-> FALSE,
               seen |-> [key \in KeysOfEngine(config.engine) |-> Nothing]]

\* the key whose extractor runs, and the lines it reads
ScanKey == Head(todo)
ScanLines == DocOf(ScanKey)

\* the loop is left: the while condition fails, or index_paths breaks
LoopEnds ==
    IF ScanKey = PathsKey THEN PathsLoopEnds(ScanLines, idx.i, idx.st)
    ELSE idx.i > Len(ScanLines)

\* while i < total_lines: of index_paths
PathsLoopIteration ==
    /\ pc = "scan"
    /\ ScanKey = PathsKey
    /\ ~LoopEnds
    /\ LET next == PathsIteration(ScanLines, idx.i, idx.st)
       IN  idx' = [i |-> next.i, prev |-> idx.i, st |-> next.st]
    /\ UNCHANGED <<config, disk, hashesFile, indexFiles, pc, hashes, todo, runs, edits, run, hist>>

\* while i < total_lines: of index_schemas
SchemasLoopIteration ==
    /\ pc = "scan"
    /\ ScanKey = SchemasKey
    /\ ~LoopEnds
    /\ LET next == SchemasIteration(ScanLines, idx.i, idx.st)
       IN  idx' = [i |-> next.i, prev |-> idx.i, st |-> next.st]
    /\ UNCHANGED <<config, disk, hashesFile, indexFiles, pc, hashes, todo, runs, edits, run, hist>>

\* while i < total_lines: of index_boilerplate, every branch of which ends
\* with i += 1
BoilerplateLoopIteration ==
    /\ pc = "scan"
    /\ ScanKey = BoilerplateKey
    /\ ~LoopEnds
    /\ idx' = [i |-> idx.i + 1, prev |-> idx.i,
               st |-> BpStep(idx.st, ScanLines[idx.i], idx.i, ScanLines)]
    /\ UNCHANGED <<config, disk, hashesFile, indexFiles, pc, hashes, todo, runs, edits, run, hist>>

\* for line in f: of the extractors of the SQL engine
LineLoopIteration ==
    /\ pc = "scan"
    /\ ScanKey \in SourceFiles("sql")
    /\ ~LoopEnds
    /\ LET line == ScanLines[idx.i]
           st == CASE ScanKey = SchemaFile -> SchemaStep(idx.st, line, idx.i)
                   [] ScanKey = QueryFile -> QueryStep(idx.st, line, idx.i)
                   [] OTHER -> GenStep(idx.st, line, idx.i)
       IN  idx' = [i |-> idx.i + 1, prev |-> idx.i, st |-> st]
    /\ UNCHANGED <<config, disk, hashesFile, indexFiles, pc, hashes, todo, runs, edits, run, hist>>

\* the loop is left with the local variables the extractor builds its index of
LoopExit ==
    /\ pc = "scan"
    /\ LoopEnds
    /\ pc' = "scanned"
    /\ UNCHANGED <<config, disk, hashesFile, indexFiles, hashes, idx, todo, runs, edits, run, hist>>

NextScan ==
    \/ PathsLoopIteration
    \/ SchemasLoopIteration
    \/ BoilerplateLoopIteration
    \/ LineLoopIteration
    \/ LoopExit

\* the extractor is one thread of control: while its loop can take a step, it
\* takes one
SpecScan == InitScan /\ [][NextScan]_vars /\ WF_vars(NextScan)

\* the loop taken one iteration at a time ends with the local variables the
\* extractor of the key computes
ScanAgreesWithExtractor ==
    pc = "scanned" => idx.st = LoopResult(ScanKey, ScanLines)

\* the position stays inside the file, or one past its last line
ScanPositionInFile == idx.i \in 1..(Len(ScanLines) + 1) /\ idx.prev < idx.i

\* C36: the loop of every extractor ends on every document, and every
\* iteration of it moves the scan position forward, also an iteration of
\* index_paths that scans a method block and an iteration of index_schemas
\* that scans a schema body
C36_ScanPositionAdvancesAndLoopEnds ==
    [][idx'.i > idx.i]_idx /\ <>(pc = "scanned")

\* the loop of index_schemas has ended, and its last iteration went over a
\* schema header and a body of at least one line
C36_Witness ==
    /\ pc = "scanned"
    /\ ScanKey = SchemasKey
    /\ idx.prev > 0
    /\ MatchSchemaHeader(ScanLines[idx.prev]) # None
    /\ idx.i > idx.prev + 1
    /\ DictHas(idx.st.schemas, MatchSchemaHeader(ScanLines[idx.prev]))

=============================================================================
